---- MODULE Spec2Model ----
(***************************************************************************)
(* Session orchestration of the SAM2 inference service                     *)
(* (backend/services/inference_sam.py) and its HTTP endpoints              *)
(* (backend/routers/inference_sam.py).                                     *)
(*                                                                         *)
(* Requests run on transport threads.  Every step below is one stretch of  *)
(* a handler between two points where another thread can observe or        *)
(* change the shared state (the session store, the session objects, the    *)
(* inference lock, the Predictor).                                         *)
(***************************************************************************)
EXTENDS Integers, Sequences, FiniteSets, TLC

----------------------------------------------------------------------------
(* Bounds *)

\* the requests issued in one behaviour
RequestNos == {1, 2}
MaxRequests == Cardinality(RequestNos)
\* session ids a client invents by itself: 1..MaxNamed
MaxNamed == 1
\* number of frames of the readable video
TotalFrames == 2
\* objects per predict request
MaxObjects == 2
\* distinct non-empty point lists a client submits for an object
MaxPts == 1

Threads == {"t1", "t2"}
ObjectIds == {1, 2}

\* addresses of session objects: a request creates at most one
Objs == 1..(MaxRequests + 1)
\* uuid4() gives the same value every time
UuidRepeats(n) == MaxNamed + 1

\* the n-th value of uuid4(): never equal to an id a client invented
Uuid(n) == MaxNamed + n
SessionIds == 1..(MaxNamed + MaxRequests + 1)
NamedIds == 1..MaxNamed

\* frame indices a client sends
FrameIndexes == (0 - 1)..TotalFrames
\* frame indices of the Predictor's tracking state
StateFrames == 0..(TotalFrames - 1)

----------------------------------------------------------------------------
(* The video files *)

GoodVideo == "a.mp4"
CorruptVideo == "corrupt.mp4"
MissingVideo == "gone.mp4"
AbsoluteVideo == "/abs.mp4"
VideoPaths == {GoodVideo, CorruptVideo, MissingVideo, AbsoluteVideo}

NoImage == <<>>
FrameImage(path, idx) == <<path, idx>>
AllFrames(path) == <<path>>

\* exceptions: class name and, for an HTTPException, its status code
NoExc == [cls |-> "none", code |-> 0]
Exc(c) == [cls |-> c, code |-> 0]
HTTPException(code) == [cls |-> "HTTPException", code |-> code]

\* Python's class hierarchy of the exceptions that occur
IsInstance(e, cls) ==
    \/ e.cls = cls
    \/ cls = "Exception" /\ e.cls # "none"
    \/ cls = "RuntimeError" /\ e.cls = "NotImplementedError"

\* resolve_video_path: the exception it raises, NoExc when it returns
resolve_video_path(filename) ==
    IF filename = AbsoluteVideo THEN HTTPException(400)
    ELSE IF filename = MissingVideo THEN HTTPException(404)
    ELSE NoExc

\* cv2.VideoCapture(video_path).isOpened()
IsOpened(video_path) == video_path = GoodVideo

\* a frame index below 0 is not refused
get_video_frame_from_end(video_path, frame_index, decodes) ==
    IF ~IsOpened(video_path) THEN NoImage
    ELSE IF frame_index >= TotalFrames THEN NoImage
    ELSE IF ~decodes THEN NoImage
    ELSE FrameImage(video_path, frame_index)

\* get_video_frame: the image, or NoImage for None
get_video_frame(video_path, frame_index, decodes) ==
    IF ~IsOpened(video_path) THEN NoImage
    ELSE IF frame_index < 0 \/ frame_index >= TotalFrames THEN NoImage
    ELSE IF ~decodes THEN NoImage
    ELSE FrameImage(video_path, frame_index)

----------------------------------------------------------------------------
(* Session objects and the Predictor's tracking state *)

NoPoints == [f \in StateFrames, o \in ObjectIds |-> 0]

\* the value of self.session_states[session_id], flattened:
\* {"canceled", "state": inference_state, "last_frame_idx"}
EmptySession ==
    [canceled |-> FALSE, num_frames |-> 0, images |-> NoImage,
     has_last |-> FALSE, last_frame_idx |-> 0, points |-> NoPoints]

\* Predictor.init_state(path): the state of a fully loaded video
init_state(path) ==
    [EmptySession EXCEPT !.num_frames = TotalFrames, !.images = AllFrames(path)]

\* Predictor.reset_state(state): drops every object's point and mask history
reset_state(s) == [s EXCEPT !.points = NoPoints]

\* Predictor.add_new_points_or_box(..., clear_old_points=True): the object's
\* points on that frame are replaced by the submitted ones
add_new_points_or_box(s, frame_idx, obj_id, pts) ==
    [s EXCEPT !.points[frame_idx, obj_id] = pts]

\* the ids of the objects the tracking state holds
TrackedIds(s) == {o \in ObjectIds : \E f \in StateFrames : s.points[f, o] # 0}

\* session.get("last_frame_idx", -1)
LastFrameIdx(s) == IF s.has_last THEN s.last_frame_idx ELSE 0 - 1

----------------------------------------------------------------------------
(* State *)

VARIABLES
    session_states,   \* Inference.session_states: id -> session object, 0 absent
    heap,             \* the session objects
    inference_lock,   \* Inference.inference_lock: "" free, else the holder
    pc,               \* position of each thread in its handler
    req,              \* the locals of each thread's request
    nreq,             \* requests issued so far
    nuuid,            \* values drawn from uuid4() so far
    mp,               \* the multipart response being streamed, if any
    enc               \* the predict call whose masks are being encoded, if any

\* the variables of the inference service
svars == <<session_states, heap, inference_lock, pc, req, nreq, nuuid>>
vars == <<session_states, heap, inference_lock, pc, req, nreq, nuuid, mp, enc>>

\* no multipart response is being streamed
NoStream == [at |-> "none"]
\* no predict call is being followed through the encoding of its masks
NoCall == [at |-> "none"]

Locals0 ==
    [op |-> "none", pathGiven |-> FALSE, path |-> "", sid |-> 0,
     sidGiven |-> FALSE,
     frameGiven |-> FALSE, frameIndex |-> 0 - 1, videoPath |-> "",
     image |-> NoImage, sess |-> 0, inner |-> FALSE,
     stateless |-> FALSE, last |-> 0 - 1, changed |-> FALSE, target |-> 0,
     solo |-> FALSE, seen |-> NoPoints,
     objects |-> <<>>, results |-> <<>>, calls |-> <<>>,
     entered |-> 0, released |-> 0,
     exc |-> NoExc, status |-> 0, sessionError |-> FALSE, ok |-> FALSE]

\* The service after construction (Inference.__init__): no session.
InitCold ==
    /\ session_states = [s \in SessionIds |-> 0]
    /\ heap = [k \in Objs |-> EmptySession]
    /\ inference_lock = ""
    /\ pc = [t \in Threads |-> "idle"]
    /\ req = [t \in Threads |-> Locals0]
    /\ nreq = 0
    /\ nuuid = 0

\* The sessions one earlier request leaves behind on the new service:
\*   predict {sessionId: 1, frameIndex: 0, objects: [object 1 with points]}
WarmPredicted ==
    [EmptySession EXCEPT !.num_frames = 1, !.images = FrameImage(GoodVideo, 0),
                         !.has_last = TRUE, !.last_frame_idx = 0,
                         !.points = [NoPoints EXCEPT ![0, 1] = 1]]
\*   start_session {path: "a.mp4"}, answered with the first uuid
WarmVideo == init_state(GoodVideo)
\* The service when the requests of the behaviour arrive: new, or after one
\* of the requests above has been served.
Init ==
    /\ mp = NoStream
    /\ enc = NoCall
    /\ inference_lock = ""
    /\ pc = [t \in Threads |-> "idle"]
    /\ req = [t \in Threads |-> Locals0]
    /\ nreq = 0
    /\ \/ /\ session_states = [s \in SessionIds |-> 0]
          /\ heap = [k \in Objs |-> EmptySession]
          /\ nuuid = 0
       \/ /\ session_states = [s \in SessionIds |-> IF s = 1 THEN 1 ELSE 0]
          /\ heap = [k \in Objs |-> IF k = 1 THEN WarmPredicted ELSE EmptySession]
          /\ nuuid = 0
       \/ /\ session_states = [s \in SessionIds |-> IF s = Uuid(1) THEN 1 ELSE 0]
          /\ heap = [k \in Objs |-> IF k = 1 THEN WarmVideo ELSE EmptySession]
          /\ nuuid = 1

\* the objects the store or a running request refers to
Referenced(st, rq) ==
    {k \in Objs : \/ \E s \in SessionIds : st[s] = k
                  \/ \E t \in Threads : rq[t].sess = k}

\* an object nothing refers to any more is freed
Collect(h, st, rq) ==
    [k \in Objs |-> IF k \in Referenced(st, rq) THEN h[k] ELSE EmptySession]

\* a new session object is put at the first address, in use or not
NewObjOverwrites == CHOOSE k \in Objs : \A j \in Objs : k <= j

\* the address of a newly allocated object
NewObj == CHOOSE k \in Objs \ Referenced(session_states, req) :
             \A j \in Objs \ Referenced(session_states, req) : k <= j

----------------------------------------------------------------------------
(* The endpoints' mapping of a handler's outcome to an HTTP status *)

\* the endpoint answers 200 whatever start_session did
StartStatusAlwaysOk(e) == IF IsInstance(e, "Exception") THEN 200 ELSE 200

\* routers/inference_sam.py start_session: any exception becomes a 500
StartStatus(e) == IF IsInstance(e, "Exception") THEN 500 ELSE 200

\* the clause for RuntimeError tried before the one for NotImplementedError
PredictStatusRuntimeFirst(e) ==
    IF e = NoExc THEN 200
    ELSE IF IsInstance(e, "ValueError") THEN 400
    ELSE IF IsInstance(e, "RuntimeError") THEN 404
    ELSE IF IsInstance(e, "NotImplementedError") THEN 501
    ELSE 500

\* the endpoint without its clause for RuntimeError
PredictStatusNoRuntime(e) ==
    IF e = NoExc THEN 200
    ELSE IF IsInstance(e, "ValueError") THEN 400
    ELSE IF IsInstance(e, "NotImplementedError") THEN 501
    ELSE 500

\* routers/inference_sam.py predict: the except clauses in their order
PredictStatus(e) ==
    IF e = NoExc THEN 200
    ELSE IF IsInstance(e, "ValueError") THEN 400
    ELSE IF IsInstance(e, "NotImplementedError") THEN 501
    ELSE IF IsInstance(e, "RuntimeError") THEN 404
    ELSE 500

\* the detail of the response starts with "Session error: "
PredictSessionError(e) ==
    /\ e # NoExc
    /\ ~IsInstance(e, "ValueError")
    /\ ~IsInstance(e, "NotImplementedError")
    /\ IsInstance(e, "RuntimeError")

\* The handler of request r has ended with exception e (NoExc: it returned).
\* What is left of the request is its input and the response: the status and,
\* of a FrameResult, sessionId, frameIndex and results.
Respond(r, e) ==
    [Locals0 EXCEPT
        !.op = r.op, !.pathGiven = r.pathGiven, !.path = r.path,
        !.sid = r.sid, !.sidGiven = r.sidGiven,
        !.frameGiven = r.frameGiven, !.frameIndex = r.frameIndex,
        !.videoPath = r.videoPath, !.inner = r.inner, !.ok = r.ok,
        !.results = IF e = NoExc THEN r.results ELSE <<>>,
        !.calls = r.calls,
        !.entered = r.entered, !.released = r.released,
        !.exc = e,
        !.status = IF r.op = "predict" THEN PredictStatus(e)
                   ELSE IF r.op = "start" THEN StartStatus(e)
                   ELSE IF e = NoExc THEN 200 ELSE e.code,
        !.sessionError = r.op = "predict" /\ PredictSessionError(e)]

\* `with self.autocast_context(), ...` (lines 168, 326): the request enters a
\* numeric-precision context, and releases it when the with block is left,
\* by its end, by return or by an exception
EnterContext(r) == [r EXCEPT !.entered = @ + 1]
ExitContext(r) == [r EXCEPT !.released = @ + 1]

\* A request is taken by a free transport thread; free threads do not differ,
\* so the first one takes it.
Accepts(t) ==
    /\ pc[t] = "idle"
    /\ nreq < MaxRequests
    /\ t = "t1" \/ pc["t1"] # "idle"

\* thread u is serving a request
InFlight(u) == pc[u] \notin {"idle", "done"}

\* Thread t takes request r.  solo tells whether a request has had the
\* service to itself since it arrived.
Taken(t, r) ==
    [u \in Threads |->
        IF u = t THEN [r EXCEPT !.solo = \A w \in Threads \ {t} : ~InFlight(w)]
        ELSE IF InFlight(u) THEN [req[u] EXCEPT !.solo = FALSE]
        ELSE req[u]]

----------------------------------------------------------------------------
(* POST /start_session *)

StartRequest(t) ==
    /\ Accepts(t)
    /\ \E given \in BOOLEAN, p \in {GoodVideo, CorruptVideo} :
          req' = Taken(t, [Locals0 EXCEPT !.op = "start", !.pathGiven = given,
                                          !.path = IF given THEN p ELSE ""])
    /\ nreq' = nreq + 1
    /\ pc' = [pc EXCEPT ![t] = "s_lock"]
    /\ UNCHANGED <<session_states, heap, inference_lock, nuuid>>
    /\ UNCHANGED <<mp, enc>>

\* `with self.autocast_context(), self.inference_lock:` of start_session
StartAcquire(t) ==
    /\ pc[t] = "s_lock"
    /\ inference_lock = ""
    /\ inference_lock' = t
    /\ req' = [req EXCEPT ![t] = EnterContext(@)]
    /\ pc' = [pc EXCEPT ![t] = "s_body"]
    /\ UNCHANGED <<session_states, heap, nreq, nuuid>>
    /\ UNCHANGED <<mp, enc>>

\* line 200: self.session_states[session_id] = {...}
StoreSession(st, session_id, k) == [st EXCEPT ![session_id] = k]

\* The body of start_session, lines 169-201, and the end of its with block:
\* the lock is released, also when init_state raises.
StartBody(t) ==
    /\ pc[t] = "s_body"
    /\ LET r == ExitContext(req[t])
           session_id == IF r.sid = 0 THEN Uuid(nuuid + 1) ELSE r.sid
           created == StoreSession(session_states, session_id, NewObj)
           r1 == [r EXCEPT !.sid = session_id]
           r2 == [r1 EXCEPT !.calls = Append(@, "init_state")]
       IN  /\ nuuid' = IF r.sid = 0 THEN nuuid + 1 ELSE nuuid
           /\ IF r.pathGiven
              THEN IF r.path = GoodVideo
                   THEN /\ session_states' = created
                        /\ req' = [req EXCEPT ![t] = Respond(r2, NoExc)]
                        /\ heap' = Collect([heap EXCEPT ![NewObj] = init_state(r.path)],
                                           created, req')
                        /\ pc' = [pc EXCEPT ![t] = "done"]
                   ELSE /\ req' = [req EXCEPT ![t] = Respond(r2, Exc("Exception"))]
                        /\ pc' = [pc EXCEPT ![t] = "done"]
                        /\ UNCHANGED <<heap, session_states>>
              ELSE /\ session_states' = created
                   /\ req' = [req EXCEPT ![t] = IF r.inner THEN r1
                                                ELSE Respond(r1, NoExc)]
                   /\ heap' = Collect([heap EXCEPT ![NewObj] = EmptySession],
                                      created, req')
                   /\ pc' = [pc EXCEPT ![t] = IF r.inner THEN "p_get" ELSE "done"]
    /\ inference_lock' = ""
    /\ UNCHANGED nreq
    /\ UNCHANGED <<mp, enc>>

----------------------------------------------------------------------------
(* POST /close_session *)

\* the ids a client can name: the ones it invents and the ones in the store
KnownIds == NamedIds \cup {s \in SessionIds : session_states[s] # 0}

CloseRequest(t) ==
    /\ Accepts(t)
    /\ nreq' = nreq + 1
    /\ \E s \in {0} \cup KnownIds :
          LET r == [Locals0 EXCEPT !.op = "close", !.sid = s]
          IN  IF s = 0
              THEN /\ req' = Taken(t, Respond(r, HTTPException(400)))
                   /\ pc' = [pc EXCEPT ![t] = "done"]
              ELSE /\ req' = Taken(t, r)
                   /\ pc' = [pc EXCEPT ![t] = "c_lock"]
    /\ UNCHANGED <<session_states, heap, inference_lock, nuuid>>
    /\ UNCHANGED <<mp, enc>>

CloseAcquire(t) ==
    /\ pc[t] = "c_lock"
    /\ inference_lock = ""
    /\ inference_lock' = t
    /\ pc' = [pc EXCEPT ![t] = "c_body"]
    /\ UNCHANGED <<session_states, heap, req, nreq, nuuid>>
    /\ UNCHANGED <<mp, enc>>

\* closing a session also clears the state object that was stored under it
CloseBodyFrees(t) ==
    /\ pc[t] = "c_body"
    /\ req' = [req EXCEPT ![t] =
                 Respond([@ EXCEPT !.ok = session_states[req[t].sid] # 0], NoExc)]
    /\ session_states' = [session_states EXCEPT ![req[t].sid] = 0]
    /\ heap' = [k \in Objs |->
                  IF k = session_states[req[t].sid] THEN EmptySession
                  ELSE Collect(heap, session_states', req')[k]]
    /\ inference_lock' = ""
    /\ pc' = [pc EXCEPT ![t] = "done"]
    /\ UNCHANGED <<nreq, nuuid>>
    /\ UNCHANGED <<mp, enc>>

\* the session is looked up with get instead of pop: it stays in the store
CloseBodyGet(t) ==
    /\ pc[t] = "c_body"
    /\ req' = [req EXCEPT ![t] =
                 Respond([@ EXCEPT !.ok = session_states[req[t].sid] # 0], NoExc)]
    /\ heap' = Collect(heap, session_states, req')
    /\ inference_lock' = ""
    /\ pc' = [pc EXCEPT ![t] = "done"]
    /\ UNCHANGED <<session_states, nreq, nuuid>>
    /\ UNCHANGED <<mp, enc>>

\* lines 206-211: session_states.pop(session_id, None); the lock is released
CloseBody(t) ==
    /\ pc[t] = "c_body"
    /\ req' = [req EXCEPT ![t] =
                 Respond([@ EXCEPT !.ok = session_states[req[t].sid] # 0], NoExc)]
    /\ session_states' = [session_states EXCEPT ![req[t].sid] = 0]
    /\ heap' = Collect(heap, session_states', req')
    /\ inference_lock' = ""
    /\ pc' = [pc EXCEPT ![t] = "done"]
    /\ UNCHANGED <<nreq, nuuid>>
    /\ UNCHANGED <<mp, enc>>

\* the response has been sent; the thread takes the next request
Return(t) ==
    /\ pc[t] = "done"
    /\ pc' = [pc EXCEPT ![t] = "idle"]
    /\ req' = [req EXCEPT ![t] = Locals0]
    /\ UNCHANGED <<session_states, heap, inference_lock, nreq, nuuid>>
    /\ UNCHANGED <<mp, enc>>

----------------------------------------------------------------------------
(* POST /predict *)

\* the fields of the payload are drawn when the handler first reads them
PredictRequest(t) ==
    /\ Accepts(t)
    /\ nreq' = nreq + 1
    /\ req' = Taken(t, [Locals0 EXCEPT !.op = "predict"])
    /\ pc' = [pc EXCEPT ![t] = "p_validate"]
    /\ UNCHANGED <<session_states, heap, inference_lock, nuuid>>
    /\ UNCHANGED <<mp, enc>>

\* the tracking state of the sessions is reset before the fields are checked
PredictValidateResets(t) ==
    /\ pc[t] = "p_validate"
    /\ \E videoGiven \in BOOLEAN, frameGiven \in BOOLEAN :
          IF ~videoGiven
          THEN /\ req' = [req EXCEPT ![t] = Respond(@, HTTPException(400))]
               /\ pc' = [pc EXCEPT ![t] = "done"]
          ELSE IF ~frameGiven
          THEN /\ req' = [req EXCEPT ![t] =
                             Respond([@ EXCEPT !.videoPath = GoodVideo],
                                     HTTPException(400))]
               /\ pc' = [pc EXCEPT ![t] = "done"]
          ELSE /\ req' = [req EXCEPT ![t].videoPath = GoodVideo,
                                     ![t].frameGiven = TRUE]
               /\ pc' = [pc EXCEPT ![t] = "p_extract"]
    /\ heap' = [k \in Objs |-> reset_state(heap[k])]
    /\ UNCHANGED <<session_states, inference_lock, nreq, nuuid>>
    /\ UNCHANGED <<mp, enc>>

\* lines 231-235: the required fields
PredictValidate(t) ==
    /\ pc[t] = "p_validate"
    /\ \E videoGiven \in BOOLEAN, frameGiven \in BOOLEAN :
          IF ~videoGiven
          THEN /\ req' = [req EXCEPT ![t] = Respond(@, HTTPException(400))]
               /\ pc' = [pc EXCEPT ![t] = "done"]
          ELSE IF ~frameGiven
          THEN /\ req' = [req EXCEPT ![t] =
                             Respond([@ EXCEPT !.videoPath = GoodVideo],
                                     HTTPException(400))]
               /\ pc' = [pc EXCEPT ![t] = "done"]
          ELSE /\ req' = [req EXCEPT ![t].videoPath = GoodVideo,
                                     ![t].frameGiven = TRUE]
               /\ pc' = [pc EXCEPT ![t] = "p_extract"]
    /\ UNCHANGED <<session_states, heap, inference_lock, nreq, nuuid>>
    /\ UNCHANGED <<mp, enc>>

\* lines 237-259: the frame is extracted, a missing session id is generated.
\* The fields of the payload are drawn as far as the handler gets to use them.
PredictExtract(t) ==
    /\ pc[t] = "p_extract"
    /\ \E v \in VideoPaths :
          LET rv == [req[t] EXCEPT !.videoPath = v]
              e == resolve_video_path(v)
          IN  IF e # NoExc
              THEN /\ req' = [req EXCEPT ![t] = Respond(rv, e)]
                   /\ pc' = [pc EXCEPT ![t] = "done"]
                   /\ UNCHANGED nuuid
              ELSE \E f \in FrameIndexes, decodes \in BOOLEAN,
                      s \in {0} \cup KnownIds :
                   LET r == IF IsOpened(v) THEN [rv EXCEPT !.frameIndex = f]
                            ELSE rv
                       image == get_video_frame(v, f, decodes)
                   IN  /\ IF image = NoImage
                          THEN /\ req' = [req EXCEPT ![t] =
                                             Respond(r, HTTPException(400))]
                               /\ pc' = [pc EXCEPT ![t] = "done"]
                               /\ UNCHANGED nuuid
                          ELSE /\ req' = [req EXCEPT ![t] =
                                     [r EXCEPT !.image = image,
                                               !.sidGiven = s # 0,
                                               !.sid = IF s = 0 THEN Uuid(nuuid + 1)
                                                       ELSE s]]
                               /\ nuuid' = IF s = 0 THEN nuuid + 1 ELSE nuuid
                               /\ pc' = [pc EXCEPT ![t] = "p_check"]
    /\ UNCHANGED <<session_states, heap, inference_lock, nreq>>
    /\ UNCHANGED <<mp, enc>>

\* line 262: `if session_id not in self.session_states`
SessionMissing(t) == session_states[req[t].sid] = 0

\* lines 262-264: an unknown session is created by start_session(path=None)
PredictCheck(t) ==
    /\ pc[t] = "p_check"
    /\ IF SessionMissing(t)
       THEN /\ req' = [req EXCEPT ![t].inner = TRUE]
            /\ pc' = [pc EXCEPT ![t] = "s_lock"]
       ELSE /\ pc' = [pc EXCEPT ![t] = "p_get"]
            /\ UNCHANGED req
    /\ UNCHANGED <<session_states, heap, inference_lock, nreq, nuuid>>
    /\ UNCHANGED <<mp, enc>>

\* every session is taken for a stateless one
IsStatelessModeAlways(s) == TRUE

\* line 272: the mode is read off the shape of the state
IsStatelessMode(s) == s.num_frames <= 1

\* the frame index is remapped to 0 in either mode
PredictGetRemaps(t) ==
    /\ pc[t] = "p_get"
    /\ LET k == session_states[req[t].sid]
       IN  IF k = 0
           THEN /\ req' = [req EXCEPT ![t] = Respond(@, Exc("RuntimeError"))]
                /\ pc' = [pc EXCEPT ![t] = "done"]
           ELSE /\ req' = [req EXCEPT ![t].sess = k,
                                      ![t].stateless = IsStatelessMode(heap[k]),
                                      ![t].target = 0]
                /\ pc' = [pc EXCEPT ![t] = IF IsStatelessMode(heap[k])
                                           THEN "p_mode" ELSE "p_lock"]
    /\ UNCHANGED <<session_states, heap, inference_lock, nreq, nuuid>>
    /\ UNCHANGED <<mp, enc>>

\* lines 266-273: __get_session and the mode
PredictGet(t) ==
    /\ pc[t] = "p_get"
    /\ LET k == session_states[req[t].sid]
       IN  IF k = 0
           THEN /\ req' = [req EXCEPT ![t] = Respond(@, Exc("RuntimeError"))]
                /\ pc' = [pc EXCEPT ![t] = "done"]
           ELSE /\ req' = [req EXCEPT ![t].sess = k,
                                      ![t].stateless = IsStatelessMode(heap[k]),
                                      ![t].target = req[t].frameIndex]
                /\ pc' = [pc EXCEPT ![t] = IF IsStatelessMode(heap[k])
                                           THEN "p_mode" ELSE "p_lock"]
    /\ UNCHANGED <<session_states, heap, inference_lock, nreq, nuuid>>
    /\ UNCHANGED <<mp, enc>>

\* the state is reset on every call
FrameAlwaysChanged(last_frame_idx, current_frame_idx) == TRUE

\* the frame is taken for the last-seen one whenever one has been seen
FrameNeverChanged(last_frame_idx, current_frame_idx) ==
    last_frame_idx = 0 - 1

\* line 283: `if last_frame_idx != current_frame_idx`
FrameChanged(last_frame_idx, current_frame_idx) ==
    last_frame_idx # current_frame_idx

\* lines 280-283
PredictMode(t) ==
    /\ pc[t] = "p_mode"
    /\ LET last == LastFrameIdx(heap[req[t].sess])
       IN  /\ req' = [req EXCEPT ![t].last = last,
                                  ![t].seen = heap[req[t].sess].points,
                                  ![t].changed =
                                      FrameChanged(last, req[t].frameIndex)]
           /\ pc' = [pc EXCEPT ![t] = IF FrameChanged(last, req[t].frameIndex)
                                      THEN "p_reset" ELSE "p_images"]
    /\ UNCHANGED <<session_states, heap, inference_lock, nreq, nuuid>>
    /\ UNCHANGED <<mp, enc>>

\* the frame change is recorded without resetting the tracking state
PredictResetSkipped(t) ==
    /\ pc[t] = "p_reset"
    /\ req' = [req EXCEPT ![t].calls = Append(@, "reset_state")]
    /\ pc' = [pc EXCEPT ![t] = "p_setlast"]
    /\ UNCHANGED <<session_states, heap, inference_lock, nreq, nuuid>>
    /\ UNCHANGED <<mp, enc>>

\* the tracking state of every session is reset, not only the request's
PredictResetAllSessions(t) ==
    /\ pc[t] = "p_reset"
    /\ heap' = [k \in Objs |-> reset_state(heap[k])]
    /\ req' = [req EXCEPT ![t].calls = Append(@, "reset_state")]
    /\ pc' = [pc EXCEPT ![t] = "p_setlast"]
    /\ UNCHANGED <<session_states, inference_lock, nreq, nuuid>>
    /\ UNCHANGED <<mp, enc>>

\* line 286: self.predictor.reset_state(inference_state)
PredictReset(t) ==
    /\ pc[t] = "p_reset"
    /\ heap' = [heap EXCEPT ![req[t].sess] = reset_state(@)]
    /\ req' = [req EXCEPT ![t].calls = Append(@, "reset_state")]
    /\ pc' = [pc EXCEPT ![t] = "p_setlast"]
    /\ UNCHANGED <<session_states, inference_lock, nreq, nuuid>>
    /\ UNCHANGED <<mp, enc>>

\* lines 287-288
PredictSetLast(t) ==
    /\ pc[t] = "p_setlast"
    /\ heap' = [heap EXCEPT ![req[t].sess].has_last = TRUE,
                            ![req[t].sess].last_frame_idx = req[t].frameIndex]
    /\ pc' = [pc EXCEPT ![t] = "p_install"]
    /\ UNCHANGED <<session_states, inference_lock, req, nreq, nuuid>>
    /\ UNCHANGED <<mp, enc>>

\* lines 291-308
PredictInstall(t) ==
    /\ pc[t] = "p_install"
    /\ heap' = [heap EXCEPT ![req[t].sess].images = req[t].image,
                            ![req[t].sess].num_frames = 1]
    /\ pc' = [pc EXCEPT ![t] = "p_images"]
    /\ UNCHANGED <<session_states, inference_lock, req, nreq, nuuid>>
    /\ UNCHANGED <<mp, enc>>

\* the frame index is not remapped: injections use the request's frameIndex
PredictImagesKeepsIndex(t) ==
    /\ pc[t] = "p_images"
    /\ IF heap[req[t].sess].images = NoImage
       THEN heap' = [heap EXCEPT ![req[t].sess].images = req[t].image,
                                 ![req[t].sess].num_frames = 1,
                                 ![req[t].sess].has_last = TRUE,
                                 ![req[t].sess].last_frame_idx = req[t].frameIndex]
       ELSE UNCHANGED heap
    /\ pc' = [pc EXCEPT ![t] = "p_lock"]
    /\ UNCHANGED <<session_states, inference_lock, req, nreq, nuuid>>
    /\ UNCHANGED <<mp, enc>>

\* lines 312-322
PredictImages(t) ==
    /\ pc[t] = "p_images"
    /\ IF heap[req[t].sess].images = NoImage
       THEN heap' = [heap EXCEPT ![req[t].sess].images = req[t].image,
                                 ![req[t].sess].num_frames = 1,
                                 ![req[t].sess].has_last = TRUE,
                                 ![req[t].sess].last_frame_idx = req[t].frameIndex]
       ELSE UNCHANGED heap
    /\ req' = [req EXCEPT ![t].target = 0]
    /\ pc' = [pc EXCEPT ![t] = "p_lock"]
    /\ UNCHANGED <<session_states, inference_lock, nreq, nuuid>>
    /\ UNCHANGED <<mp, enc>>

\* line 326: `with self.autocast_context(), self.inference_lock:`
PredictAcquire(t) ==
    /\ pc[t] = "p_lock"
    /\ inference_lock = ""
    /\ inference_lock' = t
    /\ req' = [req EXCEPT ![t] = EnterContext(@)]
    /\ pc' = [pc EXCEPT ![t] = "p_obj"]
    /\ UNCHANGED <<session_states, heap, nreq, nuuid>>
    /\ UNCHANGED <<mp, enc>>

\* what a call of add_new_points_or_box does besides updating the state:
\* it returns the tracked ids, returns them without the object's id, or raises
PredictorOutcomes ==
    {"ok", "omit", "NotImplementedError", "Exception"}

\* the object ids the loop has come across; a request names an object once
SubmittedIds(r) == {r.objects[i].objectId : i \in 1..Len(r.objects)}

\* the object's mask is taken although its id was not returned
IdFoundAlways(out) == TRUE

\* lines 363-367: list(object_ids).index(obj.objectId) finds the id
IdFound(out) == out = "ok"

\* no object is skipped for want of points
SkipsObjectNever(obj) == FALSE

\* lines 337-339: `if not obj.points: continue`
SkipsObject(obj) == obj.points = 0

\* lines 335-399: one iteration of the loop over payload.iter_objects().
\* An exception of the Predictor leaves the with block: the lock is released
\* and the exception reaches the endpoint.
PredictObject(t) ==
    /\ pc[t] = "p_obj"
    /\ Len(req[t].objects) < MaxObjects
    /\ \E o \in ObjectIds \ SubmittedIds(req[t]), pts \in 0..MaxPts,
          out \in PredictorOutcomes :
          LET r == req[t]
              obj == [objectId |-> o, points |-> pts, out |-> out]
              r1 == [r EXCEPT !.objects = Append(@, obj)]
          IN  IF SkipsObject(obj)
              THEN /\ out = "ok"
                   /\ req' = [req EXCEPT ![t] = r1]
                   /\ UNCHANGED <<heap, pc, inference_lock>>
              ELSE LET r2 == [r1 EXCEPT !.calls =
                                     Append(@, "add_new_points_or_box")]
                   IN  IF out \in {"ok", "omit"}
                       THEN /\ heap' = [heap EXCEPT ![r.sess] =
                                  add_new_points_or_box(@, r.target, o, pts)]
                            /\ req' = [req EXCEPT ![t] =
                                  IF IdFound(out)
                                  THEN [r2 EXCEPT !.results = Append(@,
                                          [objectId |-> o, mask |-> r.image])]
                                  ELSE r2]
                            /\ UNCHANGED <<pc, inference_lock>>
                       ELSE /\ req' = [req EXCEPT ![t] =
                                          Respond(ExitContext(r2), Exc(out))]
                            /\ pc' = [pc EXCEPT ![t] = "done"]
                            /\ inference_lock' = ""
                            /\ heap' = Collect(heap, session_states, req')
    /\ UNCHANGED <<session_states, nreq, nuuid>>
    /\ UNCHANGED <<mp, enc>>

\* the session is dropped from the store once the call has been served
PredictReturnEvicts(t) ==
    /\ pc[t] = "p_obj"
    /\ inference_lock' = ""
    /\ req' = [req EXCEPT ![t] = Respond(ExitContext(@), NoExc)]
    /\ session_states' = [session_states EXCEPT ![req[t].sid] = 0]
    /\ heap' = Collect(heap, session_states', req')
    /\ pc' = [pc EXCEPT ![t] = "done"]
    /\ UNCHANGED <<nreq, nuuid>>
    /\ UNCHANGED <<mp, enc>>

\* the with block of predict is left without the lock being released
PredictReturnKeepsLock(t) ==
    /\ pc[t] = "p_obj"
    /\ req' = [req EXCEPT ![t] = Respond(ExitContext(@), NoExc)]
    /\ pc' = [pc EXCEPT ![t] = "done"]
    /\ heap' = Collect(heap, session_states, req')
    /\ UNCHANGED <<session_states, inference_lock, nreq, nuuid>>
    /\ UNCHANGED <<mp, enc>>

\* lines 401-406: the loop has run out of objects; the with block is left,
\* the lock is released and the FrameResult is returned
PredictReturn(t) ==
    /\ pc[t] = "p_obj"
    /\ inference_lock' = ""
    /\ req' = [req EXCEPT ![t] = Respond(ExitContext(@), NoExc)]
    /\ heap' = Collect(heap, session_states, req')
    /\ pc' = [pc EXCEPT ![t] = "done"]
    /\ UNCHANGED <<session_states, nreq, nuuid>>
    /\ UNCHANGED <<mp, enc>>

----------------------------------------------------------------------------

Next ==
    \E t \in Threads :
        \/ StartRequest(t) \/ StartAcquire(t) \/ StartBody(t)
        \/ CloseRequest(t) \/ CloseAcquire(t) \/ CloseBody(t)
        \/ PredictRequest(t) \/ PredictValidate(t) \/ PredictExtract(t)
        \/ PredictCheck(t) \/ PredictGet(t) \/ PredictMode(t)
        \/ PredictReset(t) \/ PredictSetLast(t) \/ PredictInstall(t)
        \/ PredictImages(t) \/ PredictAcquire(t) \/ PredictObject(t)
        \/ PredictReturn(t)
        \/ Return(t)

Spec == Init /\ [][Next]_vars

\* Thread t asks for the inference lock: threading.Lock.acquire of the with
\* statements (lines 168, 205, 326), which blocks while another thread holds it
Acquire(t) == StartAcquire(t) \/ CloseAcquire(t) \/ PredictAcquire(t)

\* a step of the handler thread t is running that does not wait for the lock
GoesOn(t) ==
    \/ StartBody(t) \/ CloseBody(t)
    \/ PredictValidate(t) \/ PredictExtract(t)
    \/ PredictCheck(t) \/ PredictGet(t) \/ PredictMode(t)
    \/ PredictReset(t) \/ PredictSetLast(t) \/ PredictInstall(t)
    \/ PredictImages(t) \/ PredictObject(t) \/ PredictReturn(t)
    \/ Return(t)

\* The new service with threads that keep running and a fair lock: a handler
\* that can go on does go on (every Predictor call returns or raises), and a
\* thread that finds the lock free again and again gets it.  A step of
\* GoesOn(t) stays possible until thread t takes it, so that strong fairness
\* asks no more of it than weak fairness.  Whether further requests arrive is
\* left open.
FairInit == InitCold /\ mp = NoStream /\ enc = NoCall
FairSpec ==
    /\ FairInit /\ [][Next]_vars
    /\ \A t \in Threads : SF_vars(GoesOn(t) \/ Acquire(t))

----------------------------------------------------------------------------
(* utils/multipart.py: the framer of the multipart/mixed response.          *)
(* A bytes object is a sequence of bytes and a str a sequence of code       *)
(* points; a byte or code point of ASCII is written as its character, the   *)
(* other ones by name.                                                      *)

CR == "CR"
LF == "LF"
CRLF == <<CR, LF>>
\* a code point outside ASCII (e with acute accent) and its UTF-8 bytes
EAcute == "U+00E9"
Utf8(cp) == IF cp = EAcute THEN <<"xC3", "xA9">> ELSE <<cp>>

\* str.encode("utf-8")
RECURSIVE encode(_)
encode(text) ==
    IF text = <<>> THEN <<>> ELSE Utf8(Head(text)) \o encode(Tail(text))

\* str(n) of a natural number: its decimal digits
Digits == <<"0", "1", "2", "3", "4", "5", "6", "7", "8", "9">>
RECURSIVE str(_)
str(n) ==
    IF n < 10 THEN <<Digits[n + 1]>>
    ELSE str(n \div 10) \o <<Digits[(n % 10) + 1]>>

\* the strings the framer and its callers write
ContentType == <<"C", "o", "n", "t", "e", "n", "t", "-", "T", "y", "p", "e">>
ContentLength ==
    <<"C", "o", "n", "t", "e", "n", "t", "-", "L", "e", "n", "g", "t", "h">>
XObjectId == <<"X", "-", "O", "b", "j", "e", "c", "t", "-", "I", "d">>
ApplicationJson ==
    <<"a", "p", "p", "l", "i", "c", "a", "t", "i", "o", "n", "/", "j", "s",
      "o", "n">>
ImagePng == <<"i", "m", "a", "g", "e", "/", "p", "n", "g">>
TextPlain == <<"t", "e", "x", "t", "/", "p", "l", "a", "i", "n">>
KeySessionId == <<"s", "e", "s", "s", "i", "o", "n", "I", "d">>
KeyFrameIndex == <<"f", "r", "a", "m", "e", "I", "n", "d", "e", "x">>
KeyObjectCount == <<"o", "b", "j", "e", "c", "t", "C", "o", "u", "n", "t">>
KeyObjectId == <<"o", "b", "j", "e", "c", "t", "I", "d">>
KeyScore == <<"s", "c", "o", "r", "e">>
KeyWidth == <<"w", "i", "d", "t", "h">>
KeyHeight == <<"h", "e", "i", "g", "h", "t">>

\* json.dumps with its defaults: ensure_ascii escapes a code point outside
\* ASCII, items are joined by ", " and a key is followed by ": ".  A dict is
\* the sequence of its items in insertion order; a value is an int, a str or
\* a float, the float given by its repr.
JsonInt(n) == [t |-> "int", v |-> n]
JsonStr(text) == [t |-> "str", v |-> text]
JsonFloat(repr) == [t |-> "float", v |-> repr]
JsonEscape(cp) ==
    IF cp = EAcute THEN <<"\\", "u", "0", "0", "e", "9">> ELSE <<cp>>
RECURSIVE JsonChars(_)
JsonChars(text) ==
    IF text = <<>> THEN <<>>
    ELSE JsonEscape(Head(text)) \o JsonChars(Tail(text))
JsonQuoted(text) == <<"\"">> \o JsonChars(text) \o <<"\"">>
JsonValue(val) ==
    IF val.t = "str" THEN JsonQuoted(val.v)
    ELSE IF val.t = "int" THEN str(val.v)
    ELSE val.v
RECURSIVE JsonItems(_)
JsonItems(items) ==
    IF items = <<>> THEN <<>>
    ELSE JsonQuoted(Head(items)[1]) \o <<":", " ">> \o JsonValue(Head(items)[2])
         \o (IF Tail(items) = <<>> THEN <<>> ELSE <<",", " ">>)
         \o JsonItems(Tail(items))
json_dumps(data) == <<"{">> \o JsonItems(data) \o <<"}">>

\* most masks of a Frame Result, most parts of a part list handed to the framer
MaxMasks == 2
MaxParts == 2

SeqsUpTo(S, n) == UNION {[1..k -> S] : k \in 0..n}

\* generate_boundary(): "mask-" and hex digits of a uuid4 (here one digit)
Boundaries == {<<"m", "a", "s", "k", "-", "0">>, <<"m", "a", "s", "k", "-", "f">>}

\* MultipartResponseBuilder.__init__: the delimiter line of a part
Delimiter(boundary) == <<"-", "-">> \o encode(boundary) \o CRLF

\* MultipartResponseBuilder.__append_header
append_header(message, key, value) ==
    message \o encode(key) \o <<":", " ">> \o encode(value) \o CRLF

RECURSIVE append_headers(_, _)
append_headers(message, headers) ==
    IF headers = <<>> THEN message
    ELSE append_headers(append_header(message, Head(headers)[1], Head(headers)[2]),
                        Tail(headers))

\* MultipartResponseBuilder.__append_body (with __close_header)
append_body(message, body) ==
    append_header(message, ContentLength, str(Len(body))) \o CRLF \o body

\* a body of type bytes, of type str, and a dict to be dumped as JSON
Bytes(b) == [t |-> "bytes", v |-> b]
Text(s) == [t |-> "str", v |-> s]
Dict(items) == [t |-> "dict", v |-> items]

\* the Content-Length of a str body is taken from the str, not from its bytes
build_length_of_str(boundary, headers, body) ==
    LET message == append_headers(Delimiter(boundary), headers)
    IN  IF body.t = "bytes" THEN append_body(message, body.v)
        ELSE append_header(message, ContentLength, str(Len(body.v)))
             \o CRLF \o encode(body.v)

\* MultipartResponseBuilder.build and get_message
build(boundary, headers, body) ==
    LET message == append_headers(Delimiter(boundary), headers)
    IN  IF body.t = "bytes" THEN append_body(message, body.v)
        ELSE append_body(message, encode(body.v))

\* the closing marker is built for a boundary generated anew from uuid4()
build_multipart_closing_generated(boundary) ==
    CRLF \o <<"-", "-">>
         \o encode(<<"m", "a", "s", "k", "-", Digits[(nuuid % 10) + 1]>>)
         \o <<"-", "-">> \o CRLF

\* the closing marker without its two trailing hyphens
build_multipart_closing_open(boundary) ==
    CRLF \o <<"-", "-">> \o encode(boundary) \o CRLF

\* build_multipart_closing
build_multipart_closing(boundary) ==
    CRLF \o <<"-", "-">> \o encode(boundary) \o <<"-", "-">> \o CRLF

\* dict.update on dicts kept as item sequences
RECURSIVE HasKey(_, _)
HasKey(d, k) == d # <<>> /\ (Head(d)[1] = k \/ HasKey(Tail(d), k))
SetItem(d, item) ==
    IF HasKey(d, item[1])
    THEN [i \in 1..Len(d) |-> IF d[i][1] = item[1] THEN item ELSE d[i]]
    ELSE Append(d, item)
RECURSIVE update(_, _)
update(d, e) == IF e = <<>> THEN d ELSE update(SetItem(d, Head(e)), Tail(e))

\* a part as create_multipart_response takes it
Part(content_type, data, extra_headers) ==
    [content_type |-> content_type, data |-> data,
     extra_headers |-> extra_headers]

\* create_multipart_response, lines 109-124: the message of one part
PartBody(part) ==
    IF part.data.t = "dict" THEN Text(json_dumps(part.data.v)) ELSE part.data
PartHeaders(part) ==
    update(<<<<ContentType, IF part.data.t = "dict" THEN ApplicationJson
                            ELSE part.content_type>>>>,
           part.extra_headers)
PartMessage(part, boundary) ==
    build(boundary, PartHeaders(part), PartBody(part))

\* the object count written is one more than the number of masks
add_metadata_counts_itself(parts, session_id, frame_index, object_count) ==
    Append(parts,
           Part(ApplicationJson,
                Dict(<<<<KeySessionId, JsonStr(session_id)>>,
                       <<KeyFrameIndex, JsonInt(frame_index)>>,
                       <<KeyObjectCount, JsonInt(object_count + 1)>>>>),
                <<>>))

\* MultipartMaskResponse.add_metadata (object_count given)
add_metadata(parts, session_id, frame_index, object_count) ==
    Append(parts,
           Part(ApplicationJson,
                Dict(<<<<KeySessionId, JsonStr(session_id)>>,
                       <<KeyFrameIndex, JsonInt(frame_index)>>,
                       <<KeyObjectCount, JsonInt(object_count)>>>>),
                <<>>))

\* a mask is added without the JSON part that describes it
add_mask_binary_only(parts, mask) ==
    Append(parts,
           Part(ImagePng, Bytes(mask.png_bytes),
                <<<<XObjectId, str(mask.object_id)>>>>))

\* MultipartMaskResponse.add_mask
add_mask(parts, mask) ==
    Append(Append(parts,
                  Part(ApplicationJson,
                       Dict(<<<<KeyObjectId, JsonInt(mask.object_id)>>,
                              <<KeyScore, JsonFloat(mask.score)>>,
                              <<KeyWidth, JsonInt(mask.width)>>,
                              <<KeyHeight, JsonInt(mask.height)>>>>),
                       <<>>)),
           Part(ImagePng, Bytes(mask.png_bytes),
                <<<<XObjectId, str(mask.object_id)>>>>))

\* build_multipart_response, lines 225-232: the loop over the masks
RECURSIVE add_masks(_, _)
add_masks(parts, masks) ==
    IF masks = <<>> THEN parts
    ELSE add_masks(add_mask(parts, Head(masks)), Tail(masks))

\* The inputs.  A Frame Result: its session id, its frame index and its masks
\* (object id, score, width, height, PNG bytes); the second PNG holds the
\* bytes of a line end and of two hyphens.
SessionTexts == {<<"s", "1">>, <<"s", EAcute>>}
FrameNumbers == {0, 12}
PngBodies == {<<"x89", "P", "N", "G">>, <<"x89", CR, LF, "-", "-">>}
Masks ==
    {[object_id |-> o, score |-> <<"0", ".", "5">>, width |-> 4, height |-> 3,
      png_bytes |-> b] : o \in ObjectIds, b \in PngBodies}
\* parts handed to create_multipart_response directly: a str with a code
\* point outside ASCII, bytes with an extra header, a dict
DirectParts ==
    {Part(TextPlain, Text(<<"h", EAcute>>), <<>>),
     Part(ImagePng, Bytes(<<"x89", "P">>), <<<<XObjectId, str(1)>>>>),
     Part(TextPlain, Dict(<<<<KeyFrameIndex, JsonInt(12)>>>>), <<>>)}

\* where the generator of create_multipart_response goes on after part i
AfterPart(parts, i) ==
    IF i < Len(parts) THEN "sep" ELSE "closing"

\* a response is to be built for a Frame Result
FrameResultInput(session_id, frame_index, masks) ==
    [at |-> "build", from_frame_result |-> TRUE,
     session_id |-> session_id, frame_index |-> frame_index,
     masks |-> masks, boundary |-> <<>>, parts |-> <<>>, i |-> 0,
     chunks |-> <<>>]
\* create_multipart_response(parts, boundary) has been called
GeneratorInput(parts, boundary) ==
    [at |-> IF parts = <<>> THEN "closing" ELSE "part",
     from_frame_result |-> FALSE,
     session_id |-> <<>>, frame_index |-> 0, masks |-> <<>>,
     boundary |-> boundary, parts |-> parts, i |-> 1, chunks |-> <<>>]

MultipartInit ==
    /\ InitCold
    /\ enc = NoCall
    /\ \/ \E session_id \in SessionTexts, frame_index \in FrameNumbers,
             masks \in SeqsUpTo(Masks, MaxMasks) :
             mp = FrameResultInput(session_id, frame_index, masks)
       \/ \E parts \in SeqsUpTo(DirectParts, MaxParts), boundary \in Boundaries :
             mp = GeneratorInput(parts, boundary)

\* build_multipart_response: the parts of the Frame Result under a new
\* boundary; the StreamingResponse will run the generator
BuildMultipartResponse ==
    /\ mp.at = "build"
    /\ \E boundary \in Boundaries :
          mp' = [GeneratorInput(
                    add_masks(add_metadata(<<>>, mp.session_id, mp.frame_index,
                                           Len(mp.masks)),
                              mp.masks),
                    boundary)
                 EXCEPT !.from_frame_result = TRUE,
                        !.session_id = mp.session_id,
                        !.frame_index = mp.frame_index,
                        !.masks = mp.masks]
    /\ UNCHANGED <<svars, enc>>

\* create_multipart_response resumed in generator g, up to its next yield:
\* lines 107-124, the message of part i
yield_part(g) ==
    [g EXCEPT !.chunks = Append(@, PartMessage(g.parts[g.i], g.boundary)),
              !.at = AfterPart(g.parts, g.i)]
\* lines 127-128, CRLF between parts
yield_separator(g) ==
    [g EXCEPT !.chunks = Append(@, CRLF), !.i = @ + 1, !.at = "part"]
\* line 131, the closing boundary; the generator is exhausted
yield_closing(g) ==
    [g EXCEPT !.chunks = Append(@, build_multipart_closing(g.boundary)),
              !.at = "end"]

\* lines 107-124: the generator yields the message of part i
YieldPart ==
    /\ mp.at = "part"
    /\ mp' = yield_part(mp)
    /\ UNCHANGED <<svars, enc>>

\* lines 127-128: CRLF between parts
YieldSeparator ==
    /\ mp.at = "sep"
    /\ mp' = yield_separator(mp)
    /\ UNCHANGED <<svars, enc>>

\* line 131: the closing boundary; the generator is exhausted
YieldClosing ==
    /\ mp.at = "closing"
    /\ mp' = yield_closing(mp)
    /\ UNCHANGED <<svars, enc>>

MultipartNext ==
    \/ BuildMultipartResponse
    \/ YieldPart
    \/ YieldSeparator
    \/ YieldClosing

MultipartSpec == MultipartInit /\ [][MultipartNext]_vars

----------------------------------------------------------------------------
(* Two runs of create_multipart_response on one part list and one boundary, *)
(* while the service goes on creating sessions (and drawing uuids).         *)

Runs == {1, 2}

\* both generators have been created; drawn[n] tells how many uuids the
\* process had drawn when run n yielded last
TwoRuns(parts, boundary) ==
    [at |-> "runs",
     run |-> [n \in Runs |-> GeneratorInput(parts, boundary)],
     drawn |-> [n \in Runs |-> 0]]

FramerRunsInit ==
    /\ InitCold
    /\ enc = NoCall
    /\ \E parts \in SeqsUpTo(DirectParts, MaxParts), boundary \in Boundaries :
          mp = TwoRuns(parts, boundary)

\* next(generator): the generator runs up to its next yield
generator_next(g) ==
    IF g.at = "part" THEN yield_part(g)
    ELSE IF g.at = "sep" THEN yield_separator(g)
    ELSE yield_closing(g)

\* the consumer of run n asks for the next chunk
Resume(n) ==
    /\ mp.at = "runs"
    /\ mp.run[n].at # "end"
    /\ mp' = [mp EXCEPT !.run[n] = generator_next(@),
                        !.drawn[n] = nuuid]
    /\ UNCHANGED <<svars, enc>>

FramerRunsNext ==
    \/ \E n \in Runs : Resume(n)
    \/ \E t \in Threads :
          StartRequest(t) \/ StartAcquire(t) \/ StartBody(t) \/ Return(t)

FramerRunsSpec == FramerRunsInit /\ [][FramerRunsNext]_vars

----------------------------------------------------------------------------
(* Numbers of the mask pipeline (services/inference_sam.py, lines 369-390). *)
(* A float is finite, infinite or not a number; a finite one is kept in     *)
(* thousandths.                                                              *)

FUnit == 1000
Fin(v) == [k |-> "fin", v |-> v]
PosInf == [k |-> "inf", v |-> 0]
NegInf == [k |-> "ninf", v |-> 0]
NaN == [k |-> "nan", v |-> 0]

\* the largest finite float32 (scaled down: 1000.0)
MaxFloat32 == 1000000
\* above this argument exp overflows float64 (709.782...)
ExpOverflow == 709782
\* a finite float64 too large to be told from its neighbours in thousandths
Saturated == 1000000000

\* np.isfinite
isfinite(x) == x.k = "fin"

\* unary minus
Neg(x) ==
    IF x.k = "fin" THEN Fin(0 - x.v)
    ELSE IF x.k = "inf" THEN NegInf
    ELSE IF x.k = "ninf" THEN PosInf
    ELSE NaN

\* IEEE addition; a finite sum beyond `max` overflows to an infinity
FAdd(a, b, max) ==
    IF a.k = "nan" \/ b.k = "nan" THEN NaN
    ELSE IF a.k = "inf" THEN (IF b.k = "ninf" THEN NaN ELSE PosInf)
    ELSE IF a.k = "ninf" THEN (IF b.k = "inf" THEN NaN ELSE NegInf)
    ELSE IF b.k # "fin" THEN b
    ELSE IF a.v + b.v > max THEN PosInf
    ELSE IF a.v + b.v < 0 - max THEN NegInf
    ELSE Fin(a.v + b.v)

\* IEEE division of 1.0 by a float that is at least 1.0, infinite or nan
Reciprocal(d) ==
    IF d.k = "nan" THEN NaN
    ELSE IF d.k # "fin" THEN Fin(0)
    ELSE Fin((FUnit * FUnit) \div d.v)

\* the values of a mask, row by row (numpy's order of reduction)
RECURSIVE Flatten(_)
Flatten(rows) == IF rows = <<>> THEN <<>> ELSE Head(rows) \o Flatten(Tail(rows))

\* np.add.reduce over float32 values
RECURSIVE F32Sum(_)
F32Sum(values) ==
    IF values = <<>> THEN Fin(0)
    ELSE FAdd(F32Sum(SubSeq(values, 1, Len(values) - 1)),
              values[Len(values)], MaxFloat32)

\* np.mean of a float32 array: the float32 sum divided by the count
mean(rows) ==
    LET values == Flatten(rows)
        total == F32Sum(values)
    IN  IF values = <<>> THEN NaN
        ELSE IF total.k = "fin" THEN Fin(total.v \div Len(values))
        ELSE total

\* e^(v/1000) in thousandths for 0 <= v: the power series up to 1.0, squaring
\* above it; saturates
RECURSIVE ExpSeries(_, _, _)
ExpSeries(v, k, term) ==
    IF term = 0 \/ k > 12 THEN 0
    ELSE term + ExpSeries(v, k + 1, (term * v) \div (FUnit * (k + 1)))
RECURSIVE ExpPos(_)
ExpPos(v) ==
    IF v <= FUnit THEN ExpSeries(v, 0, FUnit)
    ELSE LET half == ExpPos(v \div 2)
         IN  IF half > 40000 THEN Saturated ELSE (half * half) \div FUnit

\* np.exp on a float64
exp(x) ==
    IF x.k = "nan" THEN NaN
    ELSE IF x.k = "inf" THEN PosInf
    ELSE IF x.k = "ninf" THEN Fin(0)
    ELSE IF x.v > ExpOverflow THEN PosInf
    ELSE IF x.v >= 0 THEN Fin(ExpPos(x.v))
    ELSE Fin((FUnit * FUnit) \div ExpPos(0 - x.v))

\* line 376: 1.0 / (1.0 + np.exp(-raw_score))
Logistic(raw_score) == Reciprocal(FAdd(Fin(FUnit), exp(Neg(raw_score)), Saturated + FUnit))

\* the score is left as the transform gives it
ScoreUnchecked(mask) == Logistic(mean(mask))

\* lines 374-380: the confidence score of a raw mask
Score(mask) ==
    IF ~isfinite(Logistic(mean(mask))) THEN Fin(0) ELSE Logistic(mean(mask))

\* Inference.score_thresh, line 112
score_thresh == 0

\* line 370: (mask > self.score_thresh).astype(np.uint8) * 255
Above(x, thresh) ==
    \/ x.k = "inf"
    \/ x.k = "fin" /\ x.v > thresh * FUnit
binary_mask(mask) ==
    [i \in 1..Len(mask) |->
        [j \in 1..Len(mask[i]) |-> IF Above(mask[i][j], score_thresh) THEN 255 ELSE 0]]

----------------------------------------------------------------------------
(* The Mask Codec: mask_png_bytes (lines 82-98), base64 and the PNG file.   *)

\* the bytes that occur in a PNG file of the model, with their values
ByteTable ==
    <<<<"x00", 0>>, <<"x01", 1>>, <<"x02", 2>>, <<"x03", 3>>, <<"x06", 6>>,
      <<"x08", 8>>, <<LF, 10>>, <<CR, 13>>, <<"x1A", 26>>, <<"G", 71>>,
      <<"N", 78>>, <<"P", 80>>, <<"x89", 137>>, <<"xFF", 255>>>>
ord(b) == ByteTable[CHOOSE i \in 1..Len(ByteTable) : ByteTable[i][1] = b][2]
chr(n) == ByteTable[CHOOSE i \in 1..Len(ByteTable) : ByteTable[i][2] = n][1]

\* an image: its size and its pixels, row by row
Picture(width, height, px) == [width |-> width, height |-> height, px |-> px]

\* line 89-90: Image.fromarray(mask, mode="L") of an array of shape (H, W)
fromarray(mask) ==
    Picture(IF mask = <<>> THEN 0 ELSE Len(mask[1]), Len(mask), mask)

\* line 92: Image.new("RGBA", (width, height), color)
ImageNew(width, height, color) ==
    Picture(width, height, [i \in 1..height |-> [j \in 1..width |-> color]])

\* Image.paste(color, box, mask): each channel is blended by the mask value
Blend(old, new, m) ==
    IF m = 255 THEN new ELSE IF m = 0 THEN old
    ELSE (old * (255 - m) + new * m + 127) \div 255
\* the pixels are overwritten wherever the mask is not zero, alpha included
paste_opaque(im, color, mask_image) ==
    [im EXCEPT !.px =
        [i \in 1..im.height |-> [j \in 1..im.width |->
            IF mask_image.px[i][j] = 0 THEN <<0, 0, 0, 255>> ELSE color]]]
\* line 94: rgba.paste((255, 255, 255, 255), (0, 0), mask_image)
paste(im, color, mask_image) ==
    [im EXCEPT !.px =
        [i \in 1..im.height |-> [j \in 1..im.width |->
            [c \in 1..4 |-> Blend(im.px[i][j][c], color[c],
                                  mask_image.px[i][j])]]]]

\* The PNG file of an RGBA image, without compression and checksums: the
\* signature, the header (width, height, bit depth 8, colour type 6) and the
\* scanlines, each a filter byte 0 and the pixels' four bytes.
PngSignature == <<"x89", "P", "N", "G", CR, LF, "x1A", LF>>
RECURSIVE Scanline(_)
Scanline(row) ==
    IF row = <<>> THEN <<>>
    ELSE <<chr(Head(row)[1]), chr(Head(row)[2]), chr(Head(row)[3]),
           chr(Head(row)[4])>> \o Scanline(Tail(row))
RECURSIVE Scanlines(_)
Scanlines(px) ==
    IF px = <<>> THEN <<>>
    ELSE <<chr(0)>> \o Scanline(Head(px)) \o Scanlines(Tail(px))
\* rgba.save(out, format="PNG"); out.getvalue()
PngSave(im) ==
    PngSignature \o <<chr(im.width), chr(im.height), chr(8), chr(6)>>
                 \o Scanlines(im.px)

\* mask_png_bytes
mask_png_bytes(mask) ==
    LET mask_image == fromarray(mask)
        rgba == ImageNew(mask_image.width, mask_image.height, <<0, 0, 0, 0>>)
    IN  PngSave(paste(rgba, <<255, 255, 255, 255>>, mask_image))

\* Reading the PNG file back (a client of the service)
PngOpen(bytes) ==
    LET width == ord(bytes[9])
        height == ord(bytes[10])
        at(i, j, c) == 12 + (i - 1) * (1 + 4 * width) + 1 + (j - 1) * 4 + c
    IN  Picture(width, height,
                [i \in 1..height |-> [j \in 1..width |->
                    [c \in 1..4 |-> ord(bytes[at(i, j, c)])]]])
IsPng(bytes) ==
    /\ Len(bytes) >= 12
    /\ SubSeq(bytes, 1, 8) = PngSignature
    /\ Len(bytes) = 12 + ord(bytes[10]) * (1 + 4 * ord(bytes[9]))
\* the boolean mask of an image: a pixel is set iff its alpha is 255
DecodeMask(im) ==
    [i \in 1..im.height |-> [j \in 1..im.width |-> im.px[i][j][4] = 255]]
\* the boolean mask that a binary mask stands for
IsSet(mask) ==
    [i \in 1..Len(mask) |-> [j \in 1..Len(mask[i]) |-> mask[i][j] # 0]]

\* base64
B64Alphabet ==
    <<"A", "B", "C", "D", "E", "F", "G", "H", "I", "J", "K", "L", "M",
      "N", "O", "P", "Q", "R", "S", "T", "U", "V", "W", "X", "Y", "Z",
      "a", "b", "c", "d", "e", "f", "g", "h", "i", "j", "k", "l", "m",
      "n", "o", "p", "q", "r", "s", "t", "u", "v", "w", "x", "y", "z",
      "0", "1", "2", "3", "4", "5", "6", "7", "8", "9", "+", "/">>
B64Char(n) == B64Alphabet[(n % 64) + 1]
B64Value(c) == (CHOOSE i \in 1..64 : B64Alphabet[i] = c) - 1

\* base64.b64encode(data).decode("ascii")
RECURSIVE b64encode(_)
b64encode(data) ==
    IF data = <<>> THEN <<>>
    ELSE IF Len(data) = 1
    THEN LET n == ord(data[1]) * 65536
         IN  <<B64Char(n \div 262144), B64Char(n \div 4096), "=", "=">>
    ELSE IF Len(data) = 2
    THEN LET n == ord(data[1]) * 65536 + ord(data[2]) * 256
         IN  <<B64Char(n \div 262144), B64Char(n \div 4096),
               B64Char(n \div 64), "=">>
    ELSE LET n == ord(data[1]) * 65536 + ord(data[2]) * 256 + ord(data[3])
         IN  <<B64Char(n \div 262144), B64Char(n \div 4096),
               B64Char(n \div 64), B64Char(n)>>
             \o b64encode(SubSeq(data, 4, Len(data)))

\* base64.b64decode(text)
RECURSIVE b64decode(_)
b64decode(text) ==
    IF text = <<>> THEN <<>>
    ELSE LET pad == IF text[4] # "=" THEN 0 ELSE IF text[3] # "=" THEN 1 ELSE 2
             n == B64Value(text[1]) * 262144 + B64Value(text[2]) * 4096
                  + (IF pad < 2 THEN B64Value(text[3]) * 64 ELSE 0)
                  + (IF pad < 1 THEN B64Value(text[4]) ELSE 0)
             three == <<chr(n \div 65536), chr((n \div 256) % 256), chr(n % 256)>>
         IN  SubSeq(three, 1, 3 - pad) \o b64decode(SubSeq(text, 5, Len(text)))

----------------------------------------------------------------------------
(* The masks of one predict call on their way to the client: the endpoint   *)
(* (routers/inference_sam.py, lines 35-51) and the part of the loop that    *)
(* turns the Predictor's masks into Object Results (lines 369-399).         *)

\* longest side and number of pixels of a frame
MaxSide == 2

MultipartMixed ==
    <<"m", "u", "l", "t", "i", "p", "a", "r", "t", "/", "m", "i", "x", "e", "d">>
MultipartFormData ==
    <<"m", "u", "l", "t", "i", "p", "a", "r", "t", "/",
      "f", "o", "r", "m", "-", "d", "a", "t", "a">>

\* Python's `sub in s` on strings
Contains(s, sub) ==
    \E i \in 1..(Len(s) - Len(sub) + 1) : SubSeq(s, i, i + Len(sub) - 1) = sub

\* the Accept header: absent (None), or its text
NoHeader == [given |-> FALSE, v |-> <<>>]
Header(text) == [given |-> TRUE, v |-> text]
AcceptHeaders ==
    {NoHeader, Header(<<>>), Header(ApplicationJson), Header(MultipartMixed),
     Header(ApplicationJson \o <<",", " ">> \o MultipartMixed),
     Header(MultipartFormData)}

\* multipart is used only when the header is multipart/mixed and nothing else
use_multipart_exact(accept) == accept.given /\ accept.v = MultipartMixed

\* line 37: use_multipart = accept and "multipart/mixed" in accept
use_multipart(accept) ==
    accept.given /\ accept.v # <<>> /\ Contains(accept.v, MultipartMixed)

\* image.size of the extracted frame
FrameSizes ==
    {<<w, h>> \in (1..MaxSide) \X (1..MaxSide) : w * h <= MaxSide}

\* the values of the Predictor's raw masks (float32)
Logits == {Fin(0 - MaxFloat32), Fin(0 - 1000), Fin(2000), Fin(MaxFloat32), NaN}
\* video_res_masks[obj_index, 0] for a video of that size: shape (H, W)
RawMasks(size) == [1..size[2] -> [1..size[1] -> Logits]]

\* line 389: the payload of the mask
EncodedData(png_bytes, return_binary) ==
    IF return_binary THEN Bytes(png_bytes) ELSE Text(b64encode(png_bytes))

\* lines 369-399: the Object Result of an object whose mask was located
ObjectResult(objectId, mask, size, return_binary) ==
    [objectId |-> objectId,
     score |-> Score(mask),
     mask |-> [width |-> size[1], height |-> size[2], format |-> "png",
               data |-> EncodedData(mask_png_bytes(binary_mask(mask)),
                                    return_binary)]]

\* POST /predict has arrived with this Accept header; the frame has this size
PredictCall(accept, size) ==
    [at |-> "endpoint", accept |-> accept, return_binary |-> FALSE,
     size |-> size, raw |-> <<>>, results |-> <<>>,
     response |-> [kind |-> "none"]]

EncodeInit ==
    /\ InitCold
    /\ mp = NoStream
    /\ \E accept \in AcceptHeaders, size \in FrameSizes :
          enc = PredictCall(accept, size)

\* lines 37-38: inference.predict(payload, return_binary=use_multipart)
CallPredict ==
    /\ enc.at = "endpoint"
    /\ enc' = [enc EXCEPT !.return_binary = use_multipart(enc.accept),
                          !.at = "loop"]
    /\ UNCHANGED <<svars, mp>>

\* lines 369-399: the Predictor has returned the masks and the object's id is
\* among the ids; raw keeps the mask each result was made of
EncodeObject ==
    /\ enc.at = "loop"
    /\ Len(enc.results) < MaxObjects
    /\ \E o \in ObjectIds, mask \in RawMasks(enc.size) :
          enc' = [enc EXCEPT
                     !.raw = Append(@, mask),
                     !.results = Append(@, ObjectResult(o, mask, enc.size,
                                                        enc.return_binary))]
    /\ UNCHANGED <<svars, mp>>

\* lines 401-406: the Frame Result is returned to the endpoint
ReturnFrameResult ==
    /\ enc.at = "loop"
    /\ enc' = [enc EXCEPT !.at = "result"]
    /\ UNCHANGED <<svars, mp>>

\* lines 40-51: the masks are handed to build_multipart_response, or the
\* Frame Result is returned as JSON
SendResponse ==
    /\ enc.at = "result"
    /\ enc' = [enc EXCEPT
                 !.at = "sent",
                 !.response =
                    IF use_multipart(enc.accept)
                    THEN [kind |-> "multipart",
                          masks |-> [k \in 1..Len(enc.results) |->
                             [object_id |-> enc.results[k].objectId,
                              score |-> enc.results[k].score,
                              width |-> enc.results[k].mask.width,
                              height |-> enc.results[k].mask.height,
                              png_bytes |-> enc.results[k].mask.data]]]
                    ELSE [kind |-> "json", results |-> enc.results]]
    /\ UNCHANGED <<svars, mp>>

EncodeNext ==
    \/ CallPredict
    \/ EncodeObject
    \/ ReturnFrameResult
    \/ SendResponse

EncodeSpec == EncodeInit /\ [][EncodeNext]_vars

----------------------------------------------------------------------------
(* The prompts of predict calls on their way to the Predictor (lines        *)
(* 341-353), and what the Predictor keeps of them.                          *)

\* points of one object in a request, and prompt injections followed
MaxPoints == 2
MaxInjections == 2

\* PointPayload: x and y normalized to [0,1] (kept in thousandths), a label
PointPayload(x, y, label) == [x |-> x, y |-> y, label |-> label]
PointPayloads == {PointPayload(500, 1000, 1), PointPayload(250, 0, 0)}
\* obj.points when it is not empty
PointLists == UNION {[1..n -> PointPayloads] : n \in 1..MaxPoints}

\* PointPayload.to_pixel: (x * width, y * height, label)
to_pixel(p, image_size) ==
    <<p.x * image_size[1], p.y * image_size[2], p.label>>

\* line 351: clear_old_points=True
ClearOldPointsOff == FALSE
ClearOldPoints == TRUE

\* the labels are handed over in reverse order
InjectionArgsReversed(frame_idx, obj) ==
    [frame_idx |-> frame_idx,
     obj_id |-> obj.objectId,
     points |-> [i \in 1..Len(obj.points) |->
                    <<obj.points[i].x, obj.points[i].y>>],
     labels |-> [i \in 1..Len(obj.points) |->
                    obj.points[Len(obj.points) + 1 - i].label],
     clear_old_points |-> ClearOldPoints,
     normalize_coords |-> FALSE]

\* lines 341-353: the arguments of add_new_points_or_box for an object
InjectionArgs(frame_idx, obj) ==
    [frame_idx |-> frame_idx,
     obj_id |-> obj.objectId,
     points |-> [i \in 1..Len(obj.points) |->
                    <<obj.points[i].x, obj.points[i].y>>],
     labels |-> [i \in 1..Len(obj.points) |-> obj.points[i].label],
     clear_old_points |-> ClearOldPoints,
     normalize_coords |-> FALSE]

\* Predictor.add_new_points_or_box: the point inputs it keeps for the object
\* on the frame are the new ones, after the old ones unless those are cleared
point_inputs(old, args) ==
    (IF args.clear_old_points THEN <<>> ELSE old)
        \o [i \in 1..Len(args.points) |->
               <<args.points[i][1], args.points[i][2], args.labels[i]>>]

\* predict calls on one session are followed: the size of their frame, the
\* Predictor's point inputs per frame and object, and the injections made
PromptCalls(size) ==
    [at |-> "inject", size |-> size,
     point_inputs |-> [f \in StateFrames, o \in ObjectIds |-> <<>>],
     objects |-> <<>>, injected |-> <<>>]

PromptInit ==
    /\ InitCold
    /\ mp = NoStream
    /\ \E size \in FrameSizes : enc = PromptCalls(size)

\* lines 341-353 for an object with points, on target frame f
Inject ==
    /\ enc.at = "inject"
    /\ Len(enc.injected) < MaxInjections
    /\ \E f \in StateFrames, o \in ObjectIds, points \in PointLists :
          LET obj == [objectId |-> o, points |-> points]
              args == InjectionArgs(f, obj)
          IN  enc' = [enc EXCEPT
                        !.objects = Append(@, obj),
                        !.injected = Append(@, args),
                        !.point_inputs[f, o] = point_inputs(@, args)]
    /\ UNCHANGED <<svars, mp>>

PromptNext == Inject

PromptSpec == PromptInit /\ [][PromptNext]_vars

----------------------------------------------------------------------------
(* Reading a multipart stream back: what a client of the framer does.       *)

\* the bytes of the chunks, in the order they were yielded
RECURSIVE Stream(_)
Stream(chunks) ==
    IF chunks = <<>> THEN <<>> ELSE Head(chunks) \o Stream(Tail(chunks))

IsPrefix(p, s) == Len(p) <= Len(s) /\ SubSeq(s, 1, Len(p)) = p
Drop(s, n) == SubSeq(s, n + 1, Len(s))

\* the first place of the two bytes `two` in s, 0 if there is none
Find(s, two) ==
    LET at == {i \in 1..(Len(s) - 1) : s[i] = two[1] /\ s[i + 1] = two[2]}
    IN  IF at = {} THEN 0 ELSE CHOOSE i \in at : \A j \in at : i <= j

\* int(digits), or -1 when a byte is not a digit
DigitValue(c) ==
    IF \E d \in 0..9 : Digits[d + 1] = c
    THEN CHOOSE d \in 0..9 : Digits[d + 1] = c ELSE 0 - 1
RECURSIVE ParseNat(_)
ParseNat(digits) ==
    IF digits = <<>> THEN 0 - 1
    ELSE LET d == DigitValue(digits[Len(digits)])
             front == SubSeq(digits, 1, Len(digits) - 1)
         IN  IF d < 0 THEN 0 - 1
             ELSE IF front = <<>> THEN d
             ELSE IF ParseNat(front) < 0 THEN 0 - 1
             ELSE ParseNat(front) * 10 + d

Unparsed == [ok |-> FALSE, headers |-> <<>>, body |-> <<>>, rest |-> <<>>]

\* header lines "key: value" up to the blank line
RECURSIVE ParseHeaders(_, _)
ParseHeaders(s, headers) ==
    LET end == Find(s, CRLF)
        line == SubSeq(s, 1, end - 1)
        colon == Find(line, <<":", " ">>)
    IN  IF end = 0 THEN Unparsed
        ELSE IF end = 1
             THEN [ok |-> TRUE, headers |-> headers, body |-> <<>>,
                   rest |-> Drop(s, 2)]
        ELSE IF colon = 0 THEN Unparsed
        ELSE ParseHeaders(Drop(s, end + 1),
                          Append(headers, <<SubSeq(line, 1, colon - 1),
                                            Drop(line, colon + 1)>>))

\* the values of the headers named key
HeaderValues(headers, key) ==
    {headers[i][2] : i \in {j \in 1..Len(headers) : headers[j][1] = key}}

\* one part: delimiter line, headers, blank line, Content-Length bytes of body
ParsePart(s, boundary) ==
    IF ~IsPrefix(Delimiter(boundary), s) THEN Unparsed
    ELSE LET h == ParseHeaders(Drop(s, Len(Delimiter(boundary))), <<>>)
             lengths == HeaderValues(h.headers, encode(ContentLength))
             n == ParseNat(CHOOSE v \in lengths : TRUE)
         IN  IF ~h.ok \/ Cardinality(lengths) # 1 THEN Unparsed
             ELSE IF n < 0 \/ n > Len(h.rest) THEN Unparsed
             ELSE [ok |-> TRUE, headers |-> h.headers,
                   body |-> SubSeq(h.rest, 1, n), rest |-> Drop(h.rest, n)]

\* the closing delimiter line
ClosingDelimiter(boundary) ==
    <<"-", "-">> \o encode(boundary) \o <<"-", "-">> \o CRLF

\* a whole stream: parts separated by CRLF, then CRLF and the closing
\* delimiter, and nothing after it
RECURSIVE ParseStream(_, _, _)
ParseStream(s, boundary, parts) ==
    LET p == ParsePart(s, boundary)
        after == Drop(p.rest, 2)
        got == Append(parts, [headers |-> p.headers, body |-> p.body])
    IN  IF ~p.ok \/ ~IsPrefix(CRLF, p.rest) THEN [ok |-> FALSE, parts |-> parts]
        ELSE IF after = ClosingDelimiter(boundary) THEN [ok |-> TRUE, parts |-> got]
        ELSE ParseStream(after, boundary, got)

\* the stream of the response as a client reads it
Received == ParseStream(Stream(mp.chunks), mp.boundary, <<>>)

\* the body the framer is to send for a part
BodyBytes(part) ==
    IF PartBody(part).t = "bytes" THEN PartBody(part).v
    ELSE encode(PartBody(part).v)

IsJsonPart(p) == HeaderValues(p.headers, encode(ContentType)) = {encode(ApplicationJson)}
IsPngPart(p) == HeaderValues(p.headers, encode(ContentType)) = {encode(ImagePng)}

\* chunk j of the generator is the message of a part
IsPartChunk(j) == j % 2 = 1 /\ (j + 1) \div 2 <= Len(mp.parts)

----------------------------------------------------------------------------
(* Positions of a request *)

Done(t) == pc[t] = "done"
PredictDone(t) == pc[t] = "done" /\ req[t].op = "predict"

\* the step taken is a step of thread t
StepOf(t) ==
    \/ pc'[t] # pc[t]
    \/ [req'[t] EXCEPT !.solo = FALSE] # [req[t] EXCEPT !.solo = FALSE]

\* Thread t is inside one of the phases the lock is meant to serialize:
\* session creation, session closing, the mode resolution of predict (from
\* the read of the frame count to the last write of the installed frame) or
\* the prompt injections of predict.
InModeResolution(t) ==
    pc[t] \in {"p_mode", "p_reset", "p_setlast", "p_install", "p_images"}
InSerializedPhase(t) ==
    \/ pc[t] \in {"s_body", "c_body", "p_obj"}
    \/ InModeResolution(t)

\* the step thread t takes invokes an operation of the Predictor
InvokesPredictor(t) == Len(req'[t].calls) > Len(req[t].calls)

\* how often a request has invoked operation op of the Predictor
CallCount(calls, op) == Cardinality({i \in 1..Len(calls) : calls[i] = op})

\* Thread t serves a predict call in stateless mode and has read the
\* session's last-seen frame index (line 280).
AfterModeRead(t) ==
    /\ pc[t] \in {"p_reset", "p_setlast", "p_install", "p_images", "p_lock", "p_obj"}
    /\ req[t].stateless
\* ... and the request's frameIndex equals it / differs from it
SameFrameCall(t) == AfterModeRead(t) /\ req[t].last = req[t].frameIndex
NewFrameCall(t) == AfterModeRead(t) /\ req[t].last # req[t].frameIndex

\* the objects thread t's request has submitted up to and with this step
Submitted(t) == SubmittedIds(req[t]) \cup SubmittedIds(req'[t])

\* the session thread t works on is in the store after the step
StaysOpen(t) == session_states'[req[t].sid] = req[t].sess

\* the predict request of thread t lacks videoPath or frameIndex
MissingField(t) ==
    req[t].op = "predict" /\ (req[t].videoPath = "" \/ ~req[t].frameGiven)

\* the frame of thread t's predict request could not be extracted (line 239)
ExtractionFailed(t) ==
    /\ req[t].op = "predict"
    /\ ~MissingField(t)
    /\ resolve_video_path(req[t].videoPath) = NoExc
    /\ req[t].exc = HTTPException(400)

ClientError(status) == status >= 400 /\ status <= 499

----------------------------------------------------------------------------
(* Claims *)

\* C1: at any time at most one request is inside session creation, session
\* closing, or the Predictor interaction of predict (mode resolution and
\* prompt injections).
C1_OneRequestInSerializedPhase ==
    Cardinality({t \in Threads : InSerializedPhase(t)}) <= 1

\* C2: the absence check and the creation of predict's auto-creation are
\* atomic: a session is created once, and a session object in the store is
\* never replaced by another call's creation (it can only be closed).
C2_AutoCreateNeverReplaces ==
    [][\A s \in SessionIds :
          session_states[s] # 0 => session_states'[s] \in {0, session_states[s]}]_vars

\* C3: every operation that start_session or predict invokes on the Predictor
\* is invoked while the calling request holds the inference lock.
C3_PredictorCallsHoldLock ==
    [][\A t \in Threads : InvokesPredictor(t) => inference_lock = t]_vars

C5_NewFrameResetsInstallsRecords ==
    [][\A t \in Threads :
          StepOf(t) =>
             LET r == req'[t]
                 k == req'[t].sess
             IN  /\ NewFrameCall(t)' =>
                      /\ pc'[t] = "p_reset" => r.calls = <<>>
                      /\ pc'[t] = "p_setlast" =>
                            /\ pc[t] = "p_reset"
                            /\ r.calls = <<"reset_state">>
                            /\ heap'[k].points = NoPoints
                      /\ pc'[t] = "p_install" =>
                            /\ pc[t] = "p_setlast"
                            /\ LastFrameIdx(heap'[k]) = r.frameIndex
                      /\ pc'[t] = "p_images" =>
                            /\ pc[t] = "p_install"
                            /\ heap'[k].images = r.image
                            /\ heap'[k].num_frames = 1
                      /\ pc'[t] \in {"p_images", "p_lock", "p_obj"} /\ r.solo =>
                            /\ heap'[k].images = r.image
                            /\ heap'[k].num_frames = 1
                            /\ LastFrameIdx(heap'[k]) = r.frameIndex
                 /\ NewFrameCall(t) /\ pc[t] \in {"p_setlast", "p_install",
                                                  "p_images", "p_lock", "p_obj"} =>
                      /\ Head(r.calls) = "reset_state"
                      /\ CallCount(r.calls, "reset_state") = 1]_vars

C5_Witness ==
    \E t \in Threads :
        /\ NewFrameCall(t) /\ pc[t] = "p_obj"
        /\ req[t].last >= 0
        /\ req[t].calls = <<"reset_state", "add_new_points_or_box">>
        /\ heap[req[t].sess].images = req[t].image
        /\ heap[req[t].sess].num_frames = 1
        /\ LastFrameIdx(heap[req[t].sess]) = req[t].frameIndex

\* C6: after a predict call in stateless mode with a frame index different
\* from the previous one, an object masked on the previous frame and not
\* resubmitted has no Object Result in the response, and no point history:
\* the response holds results of submitted objects only, the call's reset
\* leaves no history at all, whatever the interleaving history appears only
\* for an object that the stepping request submits, and when no other request
\* runs beside the call, an object it does not submit has no history after
\* any step that follows the reset.
C6_NewFrameDropsOldObjects ==
    [][/\ \A t \in Threads :
             NewFrameCall(t) /\ StepOf(t) =>
                LET k == req[t].sess
                    res == req'[t].results
                IN  /\ \A i \in 1..Len(res) : res[i].objectId \in Submitted(t)
                    /\ pc[t] = "p_reset" => heap'[k].points = NoPoints
                    /\ StaysOpen(t) /\ req[t].solo /\ pc[t] # "p_reset" =>
                         \A f \in StateFrames, o \in ObjectIds \ Submitted(t) :
                            heap'[k].points[f, o] = 0
       /\ \A k \in Objs, f \in StateFrames, o \in ObjectIds :
             heap[k].points[f, o] = 0 /\ heap'[k].points[f, o] # 0 =>
                \E u \in Threads :
                   StepOf(u) /\ req[u].sess = k /\ o \in Submitted(u)]_vars

C6_Witness ==
    \E t \in Threads :
        /\ NewFrameCall(t) /\ pc[t] = "p_obj"
        /\ Len(req[t].results) > 0
        /\ \E o \in ObjectIds \ SubmittedIds(req[t]) :
              /\ req[t].seen[0, o] # 0
              /\ heap[req[t].sess].points[0, o] = 0

\* C7: a predict request with videoPath or frameIndex missing is answered
\* with a 400-class status, and no Predictor operation is invoked for it.
C7_MissingFieldIs400 ==
    \A t \in Threads :
        PredictDone(t) /\ MissingField(t)
            => ClientError(req[t].status) /\ req[t].calls = <<>>

\* C8: a predict request whose frame cannot be extracted is answered with a
\* 400-class status, before any Predictor operation.
C8_ExtractionFailureIs400 ==
    \A t \in Threads :
        PredictDone(t) /\ ExtractionFailed(t)
            => ClientError(req[t].status) /\ req[t].calls = <<>>

\* C9: when the session that passed predict's existence check has been
\* closed by the time predict looks it up, the call ends with the session
\* error (status 404, detail marked as session error), does not create the
\* session again and makes no prompt injection.
C9_VanishedSessionIsSessionError ==
    [][\A t \in Threads :
          /\ pc[t] = "p_get" /\ ~req[t].inner
          /\ session_states[req[t].sid] = 0
          /\ StepOf(t)
          => /\ pc'[t] = "done"
             /\ req'[t].status = 404
             /\ req'[t].sessionError
             /\ CallCount(req'[t].calls, "add_new_points_or_box") = 0
             /\ session_states' = session_states]_vars

C9_Witness ==
    \E t \in Threads :
        /\ PredictDone(t) /\ ~req[t].inner
        /\ req[t].exc = Exc("RuntimeError")
        /\ req[t].status = 404 /\ req[t].sessionError
        /\ session_states[req[t].sid] = 0

\* C10: an unimplemented-operation failure raised during predict is answered
\* with status 501, not with the session error (404) and not with 500.
C10_NotImplementedIs501 ==
    \A t \in Threads :
        PredictDone(t) /\ req[t].exc.cls = "NotImplementedError"
            => req[t].status = 501 /\ ~req[t].sessionError

C10_Witness ==
    \E t \in Threads : PredictDone(t) /\ req[t].exc.cls = "NotImplementedError"

\* thread t has answered a close request that named a session
CloseDone(t) == pc[t] = "done" /\ req[t].op = "close" /\ req[t].sid # 0

\* C11: close_session(id) never raises: it returns true exactly when the id
\* was in the store at the time of the call and false otherwise, and when it
\* returns the id is not in the store; of two closes of one id with no
\* creation in between, at most the first returns true.
C11_CloseReturnsWhetherPresent ==
    [][\A t \in Threads :
          pc[t] = "c_body" /\ StepOf(t) =>
             /\ pc'[t] = "done"
             /\ req'[t].exc = NoExc /\ req'[t].status = 200
             /\ req'[t].ok = (session_states[req[t].sid] # 0)
             /\ session_states'[req[t].sid] = 0
             /\ \A u \in Threads \ {t} :
                   CloseDone(u) /\ req[u].sid = req[t].sid /\ req[u].ok
                      => ~req'[t].ok]_vars

C11_Witness ==
    \E t \in Threads, u \in Threads :
        /\ t # u /\ CloseDone(t) /\ CloseDone(u)
        /\ req[t].sid = req[u].sid
        /\ req[t].ok /\ ~req[u].ok
        /\ session_states[req[t].sid] = 0

\* the step is the body of close_session(s) / of a start_session that stores s
ClosesSession(t, s) == pc[t] = "c_body" /\ StepOf(t) /\ req[t].sid = s
CreatesSession(t, s) ==
    /\ pc[t] = "s_body" /\ StepOf(t)
    /\ req'[t].sid = s
    /\ req'[t].exc = NoExc

\* C12: a session id is in the store exactly when it was created (by a start
\* call or by the auto-creation of a predict call) and not closed since: an
\* id enters the store only in a creation, every creation enters one, an id
\* leaves the store only in close_session, and every close of it removes it;
\* no step of a predict call, successful or failed, removes a session.
C12_StoreFollowsCreateAndClose ==
    [][\A s \in SessionIds :
          /\ session_states[s] = 0 /\ session_states'[s] # 0
                => \E t \in Threads : CreatesSession(t, s)
          /\ session_states[s] # 0 /\ session_states'[s] = 0
                => \E t \in Threads : ClosesSession(t, s)
          /\ \A t \in Threads :
                /\ CreatesSession(t, s) => session_states'[s] # 0
                /\ ClosesSession(t, s) => session_states'[s] = 0
                /\ req[t].op = "predict" /\ StepOf(t)
                   /\ ~CreatesSession(t, s) /\ session_states[s] # 0
                      => session_states'[s] = session_states[s]]_vars

\* a failed and a successful predict call have left their sessions in the store
C12_Witness ==
    \E t \in Threads, u \in Threads :
        /\ PredictDone(t) /\ req[t].exc = Exc("Exception")
        /\ req[t].calls # <<>>
        /\ session_states[req[t].sid] # 0
        /\ PredictDone(u) /\ req[u].status = 200 /\ req[u].inner
        /\ session_states[req[u].sid] # 0

\* Thread t serves a predict call that has obtained its session (line 266)
\* and has not returned yet.
HoldsSession(t) ==
    /\ req[t].op = "predict" /\ req[t].sess # 0
    /\ pc[t] \in {"p_mode", "p_reset", "p_setlast", "p_install", "p_images",
                  "p_lock", "p_obj"}
\* ... and the session has been closed since
ClosedUnder(t) == HoldsSession(t) /\ session_states[req[t].sid] # req[t].sess

\* the exceptions the Predictor raises in the model
PredictorFailures == {Exc(c) : c \in PredictorOutcomes \ {"ok", "omit"}}

\* C13: a close of session S issued while a predict call on S has obtained
\* the session does not interrupt that call: the close removes S from the
\* store and leaves the call and the state it obtained as they are, and the
\* call goes on to make its prompt injections on that state and ends with its
\* own result (status 200) or with the failure of its own Predictor call,
\* never with a session error.
C13_CloseDoesNotInterruptPredict ==
    [][\A t \in Threads :
          /\ \A u \in Threads \ {t} :
                HoldsSession(t) /\ ClosesSession(u, req[t].sid) =>
                   /\ session_states'[req[t].sid] = 0
                   /\ pc'[t] = pc[t]
                   /\ [req'[t] EXCEPT !.solo = FALSE] = [req[t] EXCEPT !.solo = FALSE]
                   /\ heap'[req[t].sess] = heap[req[t].sess]
          /\ ClosedUnder(t) /\ StepOf(t) =>
                LET k == req[t].sess
                    n == Len(req'[t].objects)
                IN  /\ ~req'[t].sessionError
                    /\ req'[t].exc \in {NoExc} \cup PredictorFailures
                    /\ pc'[t] = "done" =>
                          /\ pc[t] = "p_obj"
                          /\ req'[t].exc = NoExc =>
                                /\ req'[t].status = 200
                                /\ req'[t].results = req[t].results
                          /\ req'[t].exc # NoExc => InvokesPredictor(t)
                    /\ pc[t] = "p_obj" /\ pc'[t] = "p_obj" =>
                          /\ n = Len(req[t].objects) + 1
                          /\ req'[t].objects[n].points > 0 =>
                                /\ InvokesPredictor(t)
                                /\ heap'[k].points[req[t].target,
                                                   req'[t].objects[n].objectId]
                                      = req'[t].objects[n].points]_vars

\* a predict call has injected a prompt and got its mask after its session
\* was closed
C13_Witness ==
    \E t \in Threads, u \in Threads :
        /\ ClosedUnder(t) /\ pc[t] = "p_obj"
        /\ session_states[req[t].sid] = 0
        /\ Len(req[t].results) > 0
        /\ TrackedIds(heap[req[t].sess]) # {}
        /\ CloseDone(u) /\ req[u].sid = req[t].sid /\ req[u].ok

\* C14: for as long as a session stays in the store, every predict call on
\* it resolves the same mode: a session created from a multi-frame video has
\* frame count greater than 1 and keeps it, and no step replaces its image
\* data; a session created without a source has frame count at most 1 and
\* keeps it at most 1; the mode a predict call resolves is the one that the
\* frame count of the session it obtained tells.
C14_ModeNeverChanges ==
    [][/\ \A t \in Threads, s \in SessionIds :
             CreatesSession(t, s) =>
                LET created == heap'[session_states'[s]]
                IN  IF req[t].pathGiven
                    THEN /\ created.num_frames > 1
                         /\ created.images = AllFrames(req[t].path)
                    ELSE created.num_frames <= 1
       /\ \A s \in SessionIds :
             LET k == session_states[s]
             IN  k # 0 /\ session_states'[s] = k =>
                    /\ IsStatelessMode(heap'[k]) = IsStatelessMode(heap[k])
                    /\ ~IsStatelessMode(heap[k]) =>
                          /\ heap'[k].images = heap[k].images
                          /\ heap'[k].num_frames = heap[k].num_frames
       /\ \A t \in Threads :
             pc[t] = "p_get" /\ StepOf(t) /\ pc'[t] # "done" =>
                /\ req'[t].sess = session_states[req[t].sid]
                /\ req'[t].stateless = (heap[req'[t].sess].num_frames <= 1)
                /\ pc'[t] = IF req'[t].stateless THEN "p_mode" ELSE "p_lock"]_vars

\* a predict call has injected a prompt into a session created from a video
C14_Witness ==
    \E t \in Threads :
        /\ pc[t] = "p_obj" /\ ~req[t].stateless
        /\ session_states[req[t].sid] = req[t].sess
        /\ Len(req[t].results) > 0
        /\ TrackedIds(heap[req[t].sess]) # {}
        /\ heap[req[t].sess].num_frames > 1
        /\ heap[req[t].sess].images = AllFrames(GoodVideo)

\* thread t serves a predict call on a session whose frame count exceeds 1
StatefulCall(t) == HoldsSession(t) /\ heap[req[t].sess].num_frames > 1

\* C15: for a session whose frame count is greater than 1, a predict call
\* passes the request's frameIndex unchanged to every prompt injection, never
\* calls reset_state, and leaves the session's images, frame count and
\* last-seen frame index unchanged.
C15_StatefulUsesFrameIndex ==
    [][\A t \in Threads :
          StatefulCall(t) /\ StepOf(t) =>
             LET k == req[t].sess
                 n == Len(req'[t].objects)
             IN  /\ CallCount(req'[t].calls, "reset_state") = 0
                 /\ k \in Referenced(session_states', req') =>
                       /\ heap'[k].images = heap[k].images
                       /\ heap'[k].num_frames = heap[k].num_frames
                       /\ LastFrameIdx(heap'[k]) = LastFrameIdx(heap[k])
                 /\ pc[t] \in {"p_lock", "p_obj"}
                 /\ req[t].target = req[t].frameIndex
                 /\ InvokesPredictor(t) /\ pc'[t] = "p_obj" =>
                       /\ heap'[k].points[req[t].frameIndex,
                                          req'[t].objects[n].objectId]
                             = req'[t].objects[n].points
                       /\ \A f \in StateFrames \ {req[t].frameIndex},
                             o \in ObjectIds :
                             heap'[k].points[f, o] = heap[k].points[f, o]]_vars

\* a predict call for frame 1 has injected a prompt at frame 1 of a video session
C15_Witness ==
    \E t \in Threads :
        /\ StatefulCall(t) /\ pc[t] = "p_obj"
        /\ req[t].frameIndex = 1
        /\ Len(req[t].results) > 0
        /\ \E o \in SubmittedIds(req[t]) :
              /\ heap[req[t].sess].points[1, o] # 0
              /\ heap[req[t].sess].points[0, o] = 0

\* the ids of the objects of a request that carry at least one point
RECURSIVE PromptedIds(_)
PromptedIds(objects) ==
    IF objects = <<>> THEN <<>>
    ELSE IF Head(objects).points > 0
         THEN <<Head(objects).objectId>> \o PromptedIds(Tail(objects))
         ELSE PromptedIds(Tail(objects))

\* the object ids of a result list, in its order
ResultIds(results) == [i \in 1..Len(results) |-> results[i].objectId]

\* for every object of the request the Predictor has returned the object's id
PredictorReturnsIds(objects) ==
    \A i \in 1..Len(objects) : objects[i].out = "ok"

\* the step is the return of predict with its FrameResult (lines 401-406)
ReturnsFrameResult(t) ==
    /\ pc[t] = "p_obj" /\ StepOf(t)
    /\ pc'[t] = "done" /\ req'[t].exc = NoExc

\* C16: given a Predictor that returns the id of the object just injected,
\* the response of a predict call holds exactly one Object Result for each
\* request object with at least one point, in request order, and none for an
\* object with zero points; a request whose objects all have zero points
\* succeeds with an empty result list and makes no prompt-injection call.
C16_OneResultPerPromptedObject ==
    [][\A t \in Threads :
          ReturnsFrameResult(t) /\ PredictorReturnsIds(req[t].objects) =>
             /\ req'[t].status = 200
             /\ ResultIds(req'[t].results) = PromptedIds(req[t].objects)
             /\ CallCount(req'[t].calls, "add_new_points_or_box")
                   = Len(PromptedIds(req[t].objects))
             /\ PromptedIds(req[t].objects) = <<>> =>
                   /\ req'[t].results = <<>>
                   /\ CallCount(req'[t].calls, "add_new_points_or_box") = 0]_vars

\* the loop has passed two objects, the first without points: the result
\* list about to be returned holds the second one only
C16_Witness ==
    \E t \in Threads :
        /\ pc[t] = "p_obj" /\ Len(req[t].objects) = 2
        /\ PredictorReturnsIds(req[t].objects)
        /\ req[t].objects[1].points = 0
        /\ req[t].objects[2].points > 0
        /\ ResultIds(req[t].results) = <<req[t].objects[2].objectId>>
        /\ CallCount(req[t].calls, "add_new_points_or_box") = 1

\* the step of thread t has put an object to the Predictor and has got no
\* Object Result for it
ObjectFails(t) ==
    /\ pc[t] = "p_obj" /\ StepOf(t)
    /\ InvokesPredictor(t)
    /\ Len(req'[t].results) <= Len(req[t].results)

RECURSIVE LocatedIds(_)
LocatedIds(objects) ==
    IF objects = <<>> THEN <<>>
    ELSE IF Head(objects).points > 0 /\ Head(objects).out = "ok"
         THEN <<Head(objects).objectId>> \o LocatedIds(Tail(objects))
         ELSE LocatedIds(Tail(objects))

StreamEnded == mp.at = "end"

\* the JSON texts of the metadata part and of the part describing a mask
MetadataJson ==
    encode(json_dumps(<<<<KeySessionId, JsonStr(mp.session_id)>>,
                        <<KeyFrameIndex, JsonInt(mp.frame_index)>>,
                        <<KeyObjectCount, JsonInt(Len(mp.masks))>>>>))
MaskJson(mask) ==
    encode(json_dumps(<<<<KeyObjectId, JsonInt(mask.object_id)>>,
                        <<KeyScore, JsonFloat(mask.score)>>,
                        <<KeyWidth, JsonInt(mask.width)>>,
                        <<KeyHeight, JsonInt(mask.height)>>>>))



\* C18: the multipart stream built for a Frame Result with n Object Results
\* has exactly 1 + 2n parts: the first is the metadata JSON part, and after
\* it, for each Object Result in result order, one JSON part is immediately
\* followed by that object's binary PNG part.
C18_OnePlusTwoPartsPerResult ==
    StreamEnded /\ mp.from_frame_result =>
        LET n == Len(mp.masks)
            got == Received.parts
        IN  /\ Received.ok
            /\ Len(got) = 1 + 2 * n
            /\ Len(mp.chunks) = 2 * (1 + 2 * n)
            /\ IsJsonPart(got[1]) /\ got[1].body = MetadataJson
            /\ \A k \in 1..n :
                  /\ IsJsonPart(got[2 * k])
                  /\ got[2 * k].body = MaskJson(mp.masks[k])
                  /\ IsPngPart(got[2 * k + 1])
                  /\ got[2 * k + 1].body = mp.masks[k].png_bytes

\* a stream of five parts for two masks of different objects
C18_Witness ==
    /\ StreamEnded /\ mp.from_frame_result
    /\ Len(mp.masks) = 2
    /\ mp.masks[1].object_id # mp.masks[2].object_id
    /\ mp.masks[1].png_bytes # mp.masks[2].png_bytes
    /\ Received.ok /\ Len(Received.parts) = 5

\* C19: every part of the multipart stream carries a Content-Length header
\* whose value is the exact byte length of the part's body (the UTF-8 bytes
\* of the JSON text or of the str, the raw bytes of a PNG), placed as the
\* last header before the blank line that precedes the body.
C19_ContentLengthIsBodyLength ==
    \A j \in 1..Len(mp.chunks) :
        IsPartChunk(j) =>
           LET part == mp.parts[(j + 1) \div 2]
               p == ParsePart(mp.chunks[j], mp.boundary)
           IN  /\ p.ok /\ p.rest = <<>>
               /\ p.body = BodyBytes(part)
               /\ Len(p.headers) = Len(PartHeaders(part)) + 1
               /\ p.headers[Len(p.headers)]
                     = <<encode(ContentLength), str(Len(BodyBytes(part)))>>

\* two parts have been yielded, one with a str body that has a code point
\* of two bytes, one with a bytes body
C19_Witness ==
    \E i \in 1..Len(mp.parts), j \in 1..Len(mp.parts) :
        /\ Len(mp.chunks) >= 2 * i - 1 /\ mp.parts[i].data.t = "str"
        /\ Len(BodyBytes(mp.parts[i])) > Len(mp.parts[i].data.v)
        /\ Len(mp.chunks) >= 2 * j - 1 /\ mp.parts[j].data.t = "bytes"
        /\ ParsePart(mp.chunks[2 * i - 1], mp.boundary).body
              = BodyBytes(mp.parts[i])

\* C20: in the stream yielded by create_multipart_response for a non-empty
\* part list, every part begins with the boundary delimiter line,
\* consecutive parts are separated by CRLF followed by the next part's
\* delimiter, and the stream ends with exactly one closing delimiter, which
\* is emitted after the last part and never between parts.
C20_DelimitersAndOneClosing ==
    mp.parts # <<>> =>
        /\ \A j \in 1..Len(mp.chunks) :
              /\ IsPartChunk(j) => IsPrefix(Delimiter(mp.boundary), mp.chunks[j])
              /\ j % 2 = 0 /\ j < 2 * Len(mp.parts) => mp.chunks[j] = CRLF
              /\ IsPrefix(CRLF \o ClosingDelimiter(mp.boundary), mp.chunks[j])
                    => j = Len(mp.chunks) /\ StreamEnded
        /\ StreamEnded =>
              /\ Len(mp.chunks) = 2 * Len(mp.parts)
              /\ mp.chunks[Len(mp.chunks)] = CRLF \o ClosingDelimiter(mp.boundary)
              /\ Received.ok
              /\ Len(Received.parts) = Len(mp.parts)
              /\ \A i \in 1..Len(mp.parts) :
                    Received.parts[i].body = BodyBytes(mp.parts[i])

\* a stream of two parts handed to the framer directly, the first a PNG, has
\* ended
C20_Witness ==
    /\ StreamEnded /\ ~mp.from_frame_result
    /\ Len(mp.parts) = 2
    /\ mp.parts[1].data.t = "bytes"
    /\ Received.ok /\ Len(Received.parts) = 2

\* both runs of the framer have ended
BothRunsEnded == mp.at = "runs" /\ \A n \in Runs : mp.run[n].at = "end"

PngOf(data) == IF data.t = "bytes" THEN data.v ELSE b64decode(data.v)

\* every value of the raw mask is finite
AllFinite(mask) ==
    \A i \in 1..Len(mask) : \A j \in 1..Len(mask[i]) : isfinite(mask[i][j])

\* C22: the predict endpoint answers with the multipart stream exactly when
\* the request's Accept header contains multipart/mixed; in that case every
\* mask payload handed to the framer is raw PNG bytes, and otherwise the
\* response is the JSON Frame Result in which every mask payload is base64
\* text of the same PNG.
C22_MultipartIffAcceptedElseBase64 ==
    enc.at = "sent" =>
        /\ enc.response.kind = "multipart"
              <=> enc.accept.given /\ Contains(enc.accept.v, MultipartMixed)
        /\ enc.response.kind # "multipart" => enc.response.kind = "json"
        /\ enc.response.kind = "multipart" =>
              /\ Len(enc.response.masks) = Len(enc.raw)
              /\ \A k \in 1..Len(enc.raw) :
                    LET data == enc.response.masks[k].png_bytes
                    IN  /\ data.t = "bytes"
                        /\ IsPng(data.v)
                        /\ data.v = mask_png_bytes(binary_mask(enc.raw[k]))
        /\ enc.response.kind = "json" =>
              /\ Len(enc.response.results) = Len(enc.raw)
              /\ \A k \in 1..Len(enc.raw) :
                    LET data == enc.response.results[k].mask.data
                    IN  /\ data.t = "str"
                        /\ \A i \in 1..Len(data.v) :
                              data.v[i] = "=" \/ \E n \in 0..63 : data.v[i] = B64Char(n)
                        /\ IsPng(b64decode(data.v))
                        /\ b64decode(data.v)
                              = mask_png_bytes(binary_mask(enc.raw[k]))

\* a multipart answer with two masks to a header that names multipart/mixed
\* after another type
C22_Witness ==
    /\ enc.at = "sent"
    /\ enc.accept = Header(ApplicationJson \o <<",", " ">> \o MultipartMixed)
    /\ enc.response.kind = "multipart"
    /\ Len(enc.response.masks) = 2
    /\ enc.response.masks[1].png_bytes # enc.response.masks[2].png_bytes

\* C23: the score of every returned Object Result is within [0,1] for every
\* finite raw mask, and is 0 whenever the logistic transform of the mean raw
\* mask value is not finite.
C23_ScoreWithinUnitInterval ==
    enc.at # "none" =>
        \A k \in 1..Len(enc.results) :
            LET score == enc.results[k].score
            IN  /\ AllFinite(enc.raw[k]) =>
                      isfinite(score) /\ 0 <= score.v /\ score.v <= FUnit
                /\ ~isfinite(Logistic(mean(enc.raw[k]))) => score = Fin(0)

\* one result of a mask with a value that is not a number, scored 0, and one
\* of a finite mask whose float32 sum overflows, scored 1
C23_Witness ==
    /\ enc.at = "sent" /\ Len(enc.results) = 2
    /\ ~AllFinite(enc.raw[1])
    /\ ~isfinite(Logistic(mean(enc.raw[1])))
    /\ enc.results[1].score = Fin(0)
    /\ AllFinite(enc.raw[2]) /\ mean(enc.raw[2]) = PosInf
    /\ enc.results[2].score = Fin(FUnit)

\* C24: round-trip of the Mask Codec: for every binary mask, encoding it to
\* the RGBA PNG and decoding the PNG back to a boolean mask (pixel set iff
\* alpha is 255) reproduces the original mask exactly, with the same width
\* and height.
C24_MaskCodecRoundTrip ==
    enc.at # "none" =>
        \A k \in 1..Len(enc.results) :
            LET mask == binary_mask(enc.raw[k])
                png == PngOf(enc.results[k].mask.data)
            IN  /\ IsPng(png)
                /\ PngOpen(png).height = Len(mask)
                /\ PngOpen(png).width = Len(mask[1])
                /\ DecodeMask(PngOpen(png)) = IsSet(mask)
                /\ \A i \in 1..Len(mask) : \A j \in 1..Len(mask[i]) :
                      PngOpen(png).px[i][j]
                         = IF mask[i][j] = 255 THEN <<255, 255, 255, 255>>
                           ELSE <<0, 0, 0, 0>>

\* a mask of two pixels, one set and one not, has been encoded
C24_Witness ==
    \E k \in 1..Len(enc.results) :
        LET mask == binary_mask(enc.raw[k])
        IN  /\ Len(mask) * Len(mask[1]) = 2
            /\ \E i \in 1..Len(mask), j \in 1..Len(mask[1]) : mask[i][j] = 255
            /\ \E i \in 1..Len(mask), j \in 1..Len(mask[1]) : mask[i][j] = 0
            /\ DecodeMask(PngOpen(PngOf(enc.results[k].mask.data))) = IsSet(mask)

\* the injections made so far for object o on frame f, oldest first
InjectionsFor(f, o) ==
    {k \in 1..Len(enc.injected) :
        enc.injected[k].frame_idx = f /\ enc.injected[k].obj_id = o}
\* the points of a request's object as the Predictor keeps them
Kept(args) ==
    [i \in 1..Len(args.points) |->
        <<args.points[i][1], args.points[i][2], args.labels[i]>>]

\* C25: for every point of every processed object, the coordinates handed to
\* the Predictor are the pixel coordinates of the normalized point against
\* the extracted frame's dimensions (x times frame width, y times frame
\* height), and the labels are handed over in the same order as the points.
C25_PixelCoordinatesHandedOver ==
    enc.at = "inject" =>
        \A k \in 1..Len(enc.injected) :
            LET obj == enc.objects[k]
                args == enc.injected[k]
            IN  /\ Len(args.points) = Len(obj.points)
                /\ Len(args.labels) = Len(obj.points)
                /\ \A i \in 1..Len(obj.points) :
                      /\ args.points[i][1] = to_pixel(obj.points[i], enc.size)[1]
                      /\ args.points[i][2] = to_pixel(obj.points[i], enc.size)[2]
                      /\ args.labels[i] = obj.points[i].label

\* C25 (amended): for every point of every processed object, the
\* coordinates handed to the Predictor are the point's normalized
\* coordinates (x, y) as submitted, not scaled by the frame's dimensions, the
\* Predictor is told not to normalize them, and the labels are handed over
\* in the same order as the points.
C25_NormalizedCoordinatesHandedOver ==
    enc.at = "inject" =>
        \A k \in 1..Len(enc.injected) :
            LET obj == enc.objects[k]
                args == enc.injected[k]
            IN  /\ Len(args.points) = Len(obj.points)
                /\ Len(args.labels) = Len(obj.points)
                /\ ~args.normalize_coords
                /\ \A i \in 1..Len(obj.points) :
                      /\ args.points[i] = <<obj.points[i].x, obj.points[i].y>>
                      /\ args.labels[i] = obj.points[i].label

\* two different points were handed over for an object on a frame that is
\* two pixels wide: the first one's x is not its pixel coordinate
C25_Witness ==
    /\ enc.at = "inject" /\ enc.size[1] = 2
    /\ \E k \in 1..Len(enc.injected) :
          /\ Len(enc.objects[k].points) = 2
          /\ enc.objects[k].points[1] # enc.objects[k].points[2]
          /\ enc.injected[k].points[1][1] = enc.objects[k].points[1].x
          /\ enc.injected[k].points[1][1]
                # to_pixel(enc.objects[k].points[1], enc.size)[1]
          /\ enc.injected[k].labels
                = <<enc.objects[k].points[1].label, enc.objects[k].points[2].label>>

\* C26: prompt submission is idempotent by replacement: every prompt
\* injection is made with clearing of the old points enabled, so after
\* submitting points P for an object on a frame and then points Q for the
\* same object on the same frame, the object's point history for that frame
\* is Q alone, and submitting P twice leaves the same history as submitting
\* P once.
C26_InjectionReplaces ==
    enc.at = "inject" =>
        /\ \A k \in 1..Len(enc.injected) : enc.injected[k].clear_old_points
        /\ \A f \in StateFrames, o \in ObjectIds :
              IF InjectionsFor(f, o) = {} THEN enc.point_inputs[f, o] = <<>>
              ELSE LET last == CHOOSE k \in InjectionsFor(f, o) :
                                   \A j \in InjectionsFor(f, o) : j <= k
                   IN  enc.point_inputs[f, o] = Kept(enc.injected[last])

\* points P and then other points Q were submitted for one object on one
\* frame, and the history is Q
C26_Witness ==
    /\ enc.at = "inject" /\ Len(enc.injected) = 2
    /\ enc.injected[1].frame_idx = enc.injected[2].frame_idx
    /\ enc.injected[1].obj_id = enc.injected[2].obj_id
    /\ enc.injected[1].points # enc.injected[2].points
    /\ Len(enc.injected[1].points) = 2
    /\ enc.point_inputs[enc.injected[2].frame_idx, enc.injected[2].obj_id]
          = Kept(enc.injected[2])

\* thread t serves a predict call that has resolved its mode as stateless
StatelessCall(t) == HoldsSession(t) /\ req[t].stateless

\* C27: in stateless mode every prompt injection is made with internal frame
\* index 0, whatever the request's frameIndex is, while the Frame Result
\* returned to the client carries the request's original frameIndex.
C27_StatelessInjectsAtFrameZero ==
    [][\A t \in Threads :
          StatelessCall(t) /\ pc[t] = "p_obj" /\ StepOf(t) =>
             LET k == req[t].sess
                 n == Len(req'[t].objects)
             IN  /\ InvokesPredictor(t) => req[t].target = 0
                 /\ InvokesPredictor(t) /\ pc'[t] = "p_obj" =>
                       /\ heap'[k].points[0, req'[t].objects[n].objectId]
                             = req'[t].objects[n].points
                       /\ \A f \in StateFrames \ {0}, o \in ObjectIds :
                             heap'[k].points[f, o] = heap[k].points[f, o]
                 /\ ReturnsFrameResult(t) =>
                       /\ req'[t].status = 200
                       /\ req'[t].frameIndex = req[t].frameIndex
                       /\ req'[t].sid = req[t].sid]_vars

\* a predict call for frame 1 on a stateless session has returned a result;
\* its prompt is kept at frame 0 of the session's state
C27_Witness ==
    \E t \in Threads :
        /\ PredictDone(t) /\ req[t].status = 200
        /\ req[t].frameIndex = 1
        /\ Len(req[t].results) = 1
        /\ session_states[req[t].sid] # 0
        /\ LET s == heap[session_states[req[t].sid]]
           IN  /\ s.num_frames = 1
               /\ s.points[0, req[t].results[1].objectId] # 0
               /\ \A o \in ObjectIds : s.points[1, o] = 0

\* A predict request that got as far as its prompt injections: it succeeded
\* or a Predictor call of it raised.
ReachedInjections(t) ==
    PredictDone(t) /\ (req[t].status = 200 \/ req[t].exc \in PredictorFailures)

\* C28: every predict request, one that auto-creates its session
\* included, has entered the numeric-precision context once and released it
\* once when it is over, whether it succeeded or a Predictor call raised.
C28_ContextEnteredOnce ==
    \A t \in Threads :
        ReachedInjections(t) => req[t].entered = 1 /\ req[t].released = 1

\* lines 237-240: the step of thread t extracts the frame of its request
ExtractsFrame(t) == pc[t] = "p_extract" /\ StepOf(t)

\* lines 383-399: the step of thread t encodes the mask of an object and
\* appends it to the results of its request
EncodesMask(t) == Len(req'[t].results) > Len(req[t].results)

\* C29: a predict request holds the inference lock neither while its frame is
\* extracted nor while one of its masks is encoded.
C29_ExtractionAndEncodingOutsideLock ==
    [][\A t \in Threads :
          ExtractsFrame(t) \/ EncodesMask(t) => inference_lock # t]_vars

\* C30: when a predict call in stateless mode returns its result for frame f
\* and its session is still registered, the last-seen frame index of the
\* session is f, and every returned mask has the width and height of the
\* frame extracted for the request.
C30_StatelessReturnLeavesLastSeen ==
    [][\A t \in Threads :
          StatelessCall(t) /\ ReturnsFrameResult(t) /\ ~ClosedUnder(t) =>
             /\ session_states'[req[t].sid] = req[t].sess
             /\ LastFrameIdx(heap'[req[t].sess]) = req[t].frameIndex
             /\ \A i \in 1..Len(req'[t].results) :
                   req'[t].results[i].mask = req[t].image]_vars

\* the places where pattern p occurs in s
Occurrences(s, p) ==
    {i \in 1..(Len(s) - Len(p) + 1) : SubSeq(s, i, i + Len(p) - 1) = p}

\* the digits at the front of s
RECURSIVE LeadingDigits(_)
LeadingDigits(s) ==
    IF s = <<>> \/ DigitValue(Head(s)) < 0 THEN <<>>
    ELSE <<Head(s)>> \o LeadingDigits(Tail(s))

\* the digits of the integer a JSON text gives for key, <<>> if it has none
JsonIntField(body, key) ==
    LET p == encode(JsonQuoted(key) \o <<":", " ">>)
        at == Occurrences(body, p)
    IN  IF at = {} THEN <<>>
        ELSE LeadingDigits(Drop(body, (CHOOSE i \in at : \A j \in at : i <= j)
                                      + Len(p) - 1))

\* the binary parts of the stream as read back
BinaryParts == {i \in 1..Len(Received.parts) : IsPngPart(Received.parts[i])}

\* C31: in the multipart stream built for a Frame Result, read back from its
\* bytes, the objectCount of the metadata part is the number of binary parts,
\* and the object-id header of each binary part is the objectId of the JSON
\* part immediately before it.
C31_CountAndIdsAgree ==
    StreamEnded /\ mp.from_frame_result =>
        LET got == Received.parts
        IN  /\ Received.ok
            /\ IsJsonPart(got[1])
            /\ JsonIntField(got[1].body, KeyObjectCount) = str(Cardinality(BinaryParts))
            /\ \A i \in BinaryParts :
                  /\ i > 1 /\ IsJsonPart(got[i - 1])
                  /\ JsonIntField(got[i - 1].body, KeyObjectId) # <<>>
                  /\ HeaderValues(got[i].headers, encode(XObjectId))
                        = {JsonIntField(got[i - 1].body, KeyObjectId)}

\* a stream with two binary parts of different objects has been read back
C31_Witness ==
    /\ StreamEnded /\ mp.from_frame_result /\ Received.ok
    /\ Cardinality(BinaryParts) = 2
    /\ JsonIntField(Received.parts[1].body, KeyObjectCount) = <<"2">>
    /\ \E i \in BinaryParts, j \in BinaryParts :
          HeaderValues(Received.parts[i].headers, encode(XObjectId))
             # HeaderValues(Received.parts[j].headers, encode(XObjectId))

\* the session ids a step of thread t is about: the id of its request, before
\* and after the step (a start or predict call without id generates one)
SessionsOf(t) == {req[t].sid, req'[t].sid}

\* C32: a step of a start, predict or close call on a session leaves every
\* other session id as it is: its presence in the store, and the session
\* object it names with its tracking state and last-seen frame index.
C32_SessionsAreIsolated ==
    [][\A t \in Threads :
          StepOf(t) =>
             \A B \in SessionIds \ SessionsOf(t) :
                /\ session_states'[B] = session_states[B]
                /\ session_states[B] # 0 =>
                      heap'[session_states[B]] = heap[session_states[B]]]_vars

\* a predict call on one session has reset, installed and injected, and has
\* returned, while another session with points of its own is in the store
C32_Witness ==
    \E t \in Threads, B \in SessionIds :
        /\ PredictDone(t) /\ req[t].status = 200 /\ Len(req[t].results) > 0
        /\ B # req[t].sid
        /\ session_states[req[t].sid] # 0
        /\ session_states[B] # 0
        /\ session_states[B] # session_states[req[t].sid]
        /\ heap[session_states[B]].points # NoPoints
        /\ heap[session_states[req[t].sid]].points # NoPoints

\* C33: whenever a predict request in stateless mode with frameIndex f makes
\* a prompt injection, the frame installed in the state of its session is the
\* frame extracted for the request and the last-seen frame index of the
\* session is f, whatever other predict calls on the session run meanwhile.
C33_InjectsOnOwnFrame ==
    [][\A t \in Threads :
          StatelessCall(t) /\ pc[t] = "p_obj" /\ InvokesPredictor(t) =>
             /\ heap[req[t].sess].images = req[t].image
             /\ LastFrameIdx(heap[req[t].sess]) = req[t].frameIndex]_vars

\* the positions where a handler is inside `with self.inference_lock`
HoldsLockAt == {"s_body", "c_body", "p_obj"}
\* the positions where a handler waits for the lock
WaitsLockAt == {"s_lock", "c_lock", "p_lock"}

\* C34: the lock is held by a thread exactly while it is inside one of the
\* with blocks, so it is released on every way out of start_session,
\* close_session and predict, a raising Predictor call included; a thread that
\* asks for the lock does not hold it; as long as a request is in flight some
\* handler can take a step; and, the threads running on and the lock being
\* fair, no request stays in flight for ever: a handler leaves the positions
\* of a request in flight only by answering it.
C34_LockReleasedAndRequestsComplete ==
    /\ [](\A t \in Threads :
             /\ inference_lock = t <=> pc[t] \in HoldsLockAt
             /\ pc[t] \in WaitsLockAt => inference_lock # t)
    /\ []((\E t \in Threads : InFlight(t)) =>
             \E u \in Threads : ENABLED (GoesOn(u) \/ Acquire(u)))
    /\ \A t \in Threads : []<>(~InFlight(t))

\* a Predictor call of a predict request has raised, the request has been
\* answered, and the other thread has got the lock since
C34_Witness ==
    \E t \in Threads, u \in Threads :
        /\ u # t
        /\ PredictDone(t) /\ req[t].exc \in PredictorFailures
        /\ inference_lock = u /\ pc[u] \in HoldsLockAt

\* the handler of request r raised HTTPException(400) for a missing field
\* (lines 231-235) or because the frame could not be extracted (line 239)
RejectedEarly(r) ==
    /\ r.op = "predict" /\ r.exc = HTTPException(400)
    /\ \/ r.videoPath = "" \/ ~r.frameGiven
       \/ resolve_video_path(r.videoPath) = NoExc

\* the positions of predict before the session id is read
BeforeSession == {"p_validate", "p_extract"}

\* C35: a predict request rejected for a missing field or because its frame
\* cannot be extracted is rejected from a position before the session id is
\* read, and no step it takes up to there changes the store or a session
\* object, enters the precision context or calls the Predictor: no session
\* is created and every session keeps its tracking state and its last-seen
\* frame index.
C35_RejectedRequestLeavesStore ==
    [][\A t \in Threads :
          /\ pc[t] \in BeforeSession /\ StepOf(t) =>
                /\ session_states' = session_states /\ heap' = heap
                /\ req'[t].calls = <<>> /\ req'[t].entered = 0
          /\ pc[t] # "done" /\ pc'[t] = "done" /\ RejectedEarly(req'[t]) =>
                /\ pc[t] \in BeforeSession
                /\ session_states' = session_states /\ heap' = heap]_vars

\* a request has been rejected because its frame could not be extracted
\* while the store holds a session with points and a last-seen frame index
C35_Witness ==
    \E t \in Threads, s \in SessionIds :
        /\ PredictDone(t) /\ ExtractionFailed(t) /\ RejectedEarly(req[t])
        /\ session_states[s] # 0
        /\ heap[session_states[s]].has_last
        /\ heap[session_states[s]].points # NoPoints

\* C36: a predict call without sessionId generates an id that no session and
\* no other request has (lines 254-259), finds no session under it and
\* creates one with an empty state, a stateless one (lines 262-264); every
\* call looks its session up under the id of the request (line 266) and keeps
\* that id, so that the Frame Result it returns carries the id of the session
\* it worked on, which is in the store after the call unless a close call
\* removed it meanwhile.
C36_ReturnedIdNamesSession ==
    [][\A t \in Threads :
          /\ pc[t] = "p_extract" /\ pc'[t] = "p_check" /\ ~req'[t].sidGiven =>
                /\ nuuid' = nuuid + 1 /\ req'[t].sid = Uuid(nuuid')
                /\ session_states[req'[t].sid] = 0
                /\ \A u \in Threads \ {t} : req[u].sid # req'[t].sid
          /\ pc[t] = "p_check" /\ StepOf(t) /\ ~req[t].sidGiven =>
                pc'[t] = "s_lock" /\ req'[t].inner
          /\ pc[t] = "s_body" /\ req[t].inner /\ StepOf(t) =>
                /\ req'[t].sid = req[t].sid /\ pc'[t] = "p_get"
                /\ session_states'[req[t].sid] # 0
                /\ session_states'[req[t].sid] # session_states[req[t].sid]
                /\ heap'[session_states'[req[t].sid]] = EmptySession
                /\ IsStatelessMode(heap'[session_states'[req[t].sid]])
          /\ pc[t] = "p_get" /\ pc'[t] \notin {"p_get", "done"} =>
                /\ req'[t].sess = session_states[req[t].sid]
                /\ req'[t].sid = req[t].sid
          /\ HoldsSession(t) /\ StepOf(t) => req'[t].sid = req[t].sid
          /\ ReturnsFrameResult(t) =>
                /\ req'[t].status = 200 /\ req[t].sess # 0
                /\ ~ClosedUnder(t) =>
                      session_states'[req'[t].sid] = req[t].sess]_vars

\* a predict call without sessionId has returned a Frame Result with the
\* second uuid, and the session it created is in the store with its points
C36_Witness ==
    \E t \in Threads :
        /\ PredictDone(t) /\ req[t].status = 200
        /\ ~req[t].sidGiven /\ req[t].inner
        /\ req[t].sid = Uuid(2)
        /\ Len(req[t].results) > 0
        /\ session_states[req[t].sid] # 0
        /\ heap[session_states[req[t].sid]].points # NoPoints

\* the session objects the store or a request refers to before the step
InUse == Referenced(session_states, req)

\* C37: close removes the id from the store; a predict call that finds no
\* session under its id creates one, and the object it stores is a new one,
\* none the store or a running request still refers to, with an empty state:
\* stateless, without last-seen frame index and without points, whatever the
\* closed session was; and a predict call that finds its session without a
\* last-seen frame index resets the state and installs its frame.
C37_PredictAfterCloseStartsAnew ==
    [][\A t \in Threads :
          /\ pc[t] = "c_body" /\ StepOf(t) => session_states'[req[t].sid] = 0
          /\ pc[t] = "p_check" /\ StepOf(t) /\ session_states[req[t].sid] = 0 =>
                pc'[t] = "s_lock" /\ req'[t].inner
          /\ pc[t] = "s_body" /\ req[t].inner /\ StepOf(t) =>
                LET k == session_states'[req[t].sid]
                IN  /\ k # 0 /\ k \notin InUse
                    /\ heap'[k] = EmptySession
                    /\ IsStatelessMode(heap'[k])
                    /\ LastFrameIdx(heap'[k]) = 0 - 1
                    /\ TrackedIds(heap'[k]) = {}
          /\ pc[t] = "p_mode" /\ StepOf(t) /\ ~heap[req[t].sess].has_last =>
                pc'[t] = "p_reset"
          /\ pc[t] = "p_reset" /\ StepOf(t) =>
                /\ TrackedIds(heap'[req[t].sess]) = {}
                /\ pc'[t] = "p_setlast"
          /\ pc[t] = "p_setlast" /\ StepOf(t) =>
                /\ LastFrameIdx(heap'[req[t].sess]) = req[t].frameIndex
                /\ pc'[t] = "p_install"
          /\ pc[t] = "p_install" /\ StepOf(t) =>
                /\ heap'[req[t].sess].images = req[t].image
                /\ heap'[req[t].sess].num_frames = 1]_vars

\* the session of the loaded video has been closed, and a predict call under
\* its id has created a session, reset it, installed its frame and returned
C37_Witness ==
    \E t \in Threads, u \in Threads :
        /\ pc[u] = "done" /\ req[u].op = "close" /\ req[u].ok
        /\ req[u].sid = Uuid(1)
        /\ PredictDone(t) /\ req[t].status = 200
        /\ req[t].sid = Uuid(1) /\ req[t].sidGiven /\ req[t].inner
        /\ req[t].calls[1] = "reset_state"
        /\ session_states[Uuid(1)] # 0
        /\ heap[session_states[Uuid(1)]].num_frames = 1

\* C38: when init_state raises in a start call with a source path, the step
\* that leaves the with block stores no session and changes no session
\* object, releases the lock and answers the request with status 500, the
\* failure of the endpoint; and start_session fails in that case only.
C38_FailedStartStoresNothing ==
    [][\A t \in Threads :
          pc[t] = "s_body" /\ StepOf(t) =>
             /\ req'[t].exc # NoExc <=>
                   req[t].pathGiven /\ req[t].path = CorruptVideo
             /\ req'[t].exc # NoExc =>
                   /\ session_states' = session_states /\ heap' = heap
                   /\ inference_lock = t /\ inference_lock' = ""
                   /\ pc'[t] = "done"
                   /\ req'[t].calls = <<"init_state">>
                   /\ req'[t].status = 500]_vars

\* a start call has failed in init_state, and the other thread has taken the
\* lock since; the store is empty
C38_Witness ==
    \E t \in Threads, u \in Threads :
        /\ pc[t] = "done" /\ req[t].op = "start"
        /\ req[t].exc # NoExc /\ req[t].status = 500
        /\ u # t /\ inference_lock = u
        /\ \A s \in SessionIds : session_states[s] = 0

\* the positions of predict after the frame has been extracted
AfterExtraction ==
    {"p_check", "p_get", "p_mode", "p_reset", "p_setlast", "p_install",
     "p_images", "p_lock", "p_obj"}

\* thread t serves a predict request whose frame has been extracted
Extracted(t) ==
    /\ req[t].op = "predict"
    /\ \/ pc[t] \in AfterExtraction
       \/ pc[t] \in {"s_lock", "s_body"} /\ req[t].inner

\* C39: the last-seen frame index of every session object is unset or at
\* least 0, and the frameIndex of a request whose frame has been extracted is
\* at least 0, so that the value -1 read for an unset index differs from it;
\* and a predict call that finds its session without last-seen frame index
\* goes on to reset and install, for frameIndex 0 as for any other.
C39_UnsetIndexNeverMatches ==
    /\ [](/\ \A k \in Objs :
                /\ heap[k].has_last => heap[k].last_frame_idx >= 0
                /\ LastFrameIdx(heap[k]) = 0 - 1 <=> ~heap[k].has_last
          /\ \A t \in Threads :
                Extracted(t) =>
                   /\ req[t].frameIndex >= 0
                   /\ req[t].image
                         = FrameImage(req[t].videoPath, req[t].frameIndex))
    /\ [][\A t \in Threads :
             pc[t] = "p_mode" /\ StepOf(t) /\ ~heap[req[t].sess].has_last =>
                /\ FrameChanged(LastFrameIdx(heap[req[t].sess]), req[t].frameIndex)
                /\ pc'[t] = "p_reset"]_vars

\* the first predict call on a session it created itself, for frameIndex 0,
\* has reset the state, recorded the index and installed the frame
C39_Witness ==
    \E t \in Threads :
        /\ PredictDone(t) /\ req[t].status = 200 /\ req[t].inner
        /\ req[t].frameIndex = 0
        /\ req[t].calls[1] = "reset_state"
        /\ session_states[req[t].sid] # 0
        /\ heap[session_states[req[t].sid]].has_last
        /\ heap[session_states[req[t].sid]].last_frame_idx = 0
        /\ heap[session_states[req[t].sid]].images = FrameImage(GoodVideo, 0)

====
